---- MODULE Spec2Model ----
(***************************************************************************)
(* State-machine model of the theano nodenet engine                        *)
(* (micropsi_core/nodenet/theano_engine/theano_nodenet.py).                *)
(*                                                                         *)
(* TheanoNodenet is the facade; it keeps names, positions, the sensor and  *)
(* actuator maps, the proxy cache, the modulators, the step counter and    *)
(* the step operators, and delegates storage to one TheanoSection          *)
(* (rootsection).  The section, the identifier codec, the numeric type     *)
(* tables and the step operators live in modules that are not part of the  *)
(* source tree at hand; their definitions below follow the written         *)
(* specification and the way theano_nodenet.py uses them.                  *)
(*                                                                         *)
(* Weights and activations are fixed-point numbers: the integer v stands   *)
(* for v / Scale.                                                          *)
(***************************************************************************)
EXTENDS Integers, Sequences, FiniteSets, TLC

VARIABLES
    section,                \* self.rootsection: the arena arrays and the link matrix
    positions,              \* self.positions: uid -> position
    names,                  \* self.names: uid -> name
    sensormap,              \* self.sensormap: datasource -> list of numeric node ids
    inverted_sensor_map,    \* self.inverted_sensor_map: uid -> datasource
    actuatormap,            \* self.actuatormap: datatarget -> list of numeric node ids
    inverted_actuator_map,  \* self.inverted_actuator_map: uid -> datatarget
    proxycache,             \* self.proxycache: uid -> cached proxy (the set of cached uids)
    native_modules,         \* self.native_modules: the native module part of the type catalog
    modulators,             \* self.__modulators
    stepoperators,          \* self.stepoperators: the sorted operator list
    step,                   \* self.__step
    netlock,                \* self.netlock: "free" or the thread holding it
    pc,                     \* per thread: where it is inside step() / load()
    opidx,                  \* per thread: index of the next operator of its step
    oplog,                  \* history: operator runs, <<thread, step number, operator>>
    disk,                   \* the files save wrote: the metadata and the section's data file
    announced,              \* a second nodenet that called announce_nodes before the same calls
    viewcache,              \* the link lists the gates and slots of the cached node objects hold
    world,                  \* the World of the agents: world.agents, uid -> world adapter
    last                    \* history: the last facade call, its arguments and outcome

vars == <<section, positions, names, sensormap, inverted_sensor_map, actuatormap,
          inverted_actuator_map, proxycache, native_modules, modulators, stepoperators,
          step, netlock, pc, opidx, oplog, disk, announced, viewcache, world, last>>

----------------------------------------------------------------------------
(* Bounds of the model *)

\* cap on the node capacity NoN (node ids are 1 .. NoN-1)
MaxNoN == 3
\* cap on the element capacity NoE (elements are 0 .. NoE-1)
MaxNoE == 4
\* largest nodespace index created
MaxNodespaceId == 2
\* cap on the number of nonzero cells of the link matrix
MaxLinks == 2
\* settings['theano']['initial_number_of_nodes'] of the modelled configuration
InitialNumberOfNodes == 2
\* settings['theano']['elements_per_node_assumption'] of the modelled configuration
ElementsPerNodeAssumption == 1

(* Program constants *)

INITIAL_NUMBER_OF_NODESPACES == 10
\* fixed-point scale: the weight 0.5 is Scale \div 2
Scale == 2

None == <<>>
NoId == -1
EmptyMap == [x \in {} |-> 0]

Max(x, y) == IF x >= y THEN x ELSE y

----------------------------------------------------------------------------
(* Identifier codec: "n%03i%i" % (sid, id) for nodes, "s%i" % id for       *)
(* nodespaces; handles are sequences of one-character strings.             *)

DigitChars == <<"0", "1", "2", "3", "4", "5", "6", "7", "8", "9">>

DigitOf(c) == (CHOOSE k \in 1..10 : DigitChars[k] = c) - 1

RECURSIVE Digits(_)
Digits(i) ==
    IF i < 10 THEN <<DigitChars[i + 1]>>
    ELSE Digits(i \div 10) \o <<DigitChars[(i % 10) + 1]>>

RECURSIVE ParseInt(_)
ParseInt(ds) ==
    IF Len(ds) = 0 THEN 0
    ELSE 10 * ParseInt(SubSeq(ds, 1, Len(ds) - 1)) + DigitOf(ds[Len(ds)])

Pad3(i) ==
    IF i < 10 THEN <<"0", "0">> \o Digits(i)
    ELSE IF i < 100 THEN <<"0">> \o Digits(i)
    ELSE Digits(i)

node_to_id(id, sid) == <<"n">> \o Pad3(sid) \o Digits(id)

node_from_id(uid) == ParseInt(SubSeq(uid, 5, Len(uid)))

nodespace_to_id(id) == <<"s">> \o Digits(id)

nodespace_from_id(uid) == ParseInt(SubSeq(uid, 2, Len(uid)))

\* the partition tag a node handle carries
sid_of_uid(uid) == ParseInt(SubSeq(uid, 2, 4))

----------------------------------------------------------------------------
(* Type catalog *)

STANDARD_NODETYPES ==
    [Comment   |-> [gatetypes |-> <<>>, slottypes |-> <<>>],
     Register  |-> [gatetypes |-> <<"gen">>, slottypes |-> <<"gen">>],
     Sensor    |-> [gatetypes |-> <<"gen">>, slottypes |-> <<>>],
     Actor     |-> [gatetypes |-> <<"gen">>, slottypes |-> <<"gen">>],
     Pipe      |-> [gatetypes |-> <<"gen", "por", "ret", "sub", "sur", "cat", "exp">>,
                    slottypes |-> <<"gen", "por", "ret", "sub", "sur", "cat", "exp">>],
     Activator |-> [gatetypes |-> <<>>, slottypes |-> <<"gen">>]]

\* numeric type tags of the standard types; 0 marks a free node index
StdTypeOrder == <<"Register", "Sensor", "Actor", "Activator", "Pipe", "Comment">>

MAX_STD_NODETYPE == Len(StdTypeOrder)

\* the native module type names the model knows, in sorted order
NativeOrder == <<"AM", "NM">>

\* the native module names a catalog nm defines, in sorted order
RECURSIVE SortedNative(_, _)
SortedNative(nm, k) ==
    IF k > Len(NativeOrder) THEN <<>>
    ELSE (IF NativeOrder[k] \in DOMAIN nm THEN <<NativeOrder[k]>> ELSE <<>>)
         \o SortedNative(nm, k + 1)

IndexOf(seq, x) == IF \E k \in 1..Len(seq) : seq[k] = x
                   THEN CHOOSE k \in 1..Len(seq) : seq[k] = x
                   ELSE 0

get_numerical_node_type(type, nm) ==
    IF IndexOf(StdTypeOrder, type) # 0 THEN IndexOf(StdTypeOrder, type)
    ELSE MAX_STD_NODETYPE + IndexOf(SortedNative(nm, 1), type)

\* None when the number denotes no type of the catalog
get_string_node_type(num, nm) ==
    IF num >= 1 /\ num <= MAX_STD_NODETYPE THEN StdTypeOrder[num]
    ELSE IF num > MAX_STD_NODETYPE /\ num - MAX_STD_NODETYPE <= Len(SortedNative(nm, 1))
         THEN SortedNative(nm, 1)[num - MAX_STD_NODETYPE]
         ELSE "None"

\* TheanoNodenet.get_nodetype: the descriptor, or None
get_nodetype(type, nm) ==
    IF type \in DOMAIN STANDARD_NODETYPES THEN STANDARD_NODETYPES[type]
    ELSE IF type \in DOMAIN nm THEN nm[type]
    ELSE None

has_nodetype(type, nm) == type \in DOMAIN STANDARD_NODETYPES \/ type \in DOMAIN nm

get_gates_per_type(num, nm) ==
    IF has_nodetype(get_string_node_type(num, nm), nm)
    THEN Len(get_nodetype(get_string_node_type(num, nm), nm).gatetypes)
    ELSE 0

get_slots_per_type(num, nm) ==
    IF has_nodetype(get_string_node_type(num, nm), nm)
    THEN Len(get_nodetype(get_string_node_type(num, nm), nm).slottypes)
    ELSE 0

get_elements_per_type(num, nm) ==
    Max(get_gates_per_type(num, nm), get_slots_per_type(num, nm))

\* gate and slot numbers count from 0 (GEN = 0); -1 when the name is unknown
get_numerical_gate_type(name, nodetype) == IndexOf(nodetype.gatetypes, name) - 1

get_numerical_slot_type(name, nodetype) == IndexOf(nodetype.slottypes, name) - 1

get_string_gate_type(num, nodetype) == nodetype.gatetypes[num + 1]

get_string_slot_type(num, nodetype) == nodetype.slottypes[num + 1]

----------------------------------------------------------------------------
(* The section (partition): arena arrays and link matrix.                  *)
(* allocated_nodes[id] is the numeric type of node id (0: free),           *)
(* allocated_nodespaces[id] the parent of nodespace id (0: free; the root, *)
(* index 1, has parent 0 and exists always), w[<<row, col>>] the weight of *)
(* the link from gate element col to slot element row.                     *)

NodeIndices(s) == 0..(s.NoN - 1)

ElementIndices(s) == 0..(s.NoE - 1)

InitSection ==
    LET non == InitialNumberOfNodes
        noe == InitialNumberOfNodes * ElementsPerNodeAssumption
    IN  [sid |-> 0,
         NoN |-> non,
         NoE |-> noe,
         allocated_nodes |-> [i \in 0..(non - 1) |-> 0],
         allocated_node_parents |-> [i \in 0..(non - 1) |-> 0],
         allocated_node_offsets |-> [i \in 0..(non - 1) |-> 0],
         allocated_elements_to_nodes |-> [e \in 0..(noe - 1) |-> 0],
         allocated_nodespaces |-> [i \in 0..(INITIAL_NUMBER_OF_NODESPACES - 1) |-> 0],
         w |-> [c \in (0..(noe - 1)) \X (0..(noe - 1)) |-> 0],
         a |-> [e \in 0..(noe - 1) |-> 0],
         nodegroups |-> EmptyMap,
         native_module_instances |-> EmptyMap]

section_is_node(s, id) == id >= 1 /\ id < s.NoN /\ s.allocated_nodes[id] # 0

section_is_nodespace(s, id) ==
    id = 1 \/ (id >= 1 /\ id < INITIAL_NUMBER_OF_NODESPACES /\ s.allocated_nodespaces[id] # 0)

\* the elements of node id (np.where(allocated_elements_to_nodes == id))
ElementsOf(s, id) == {e \in ElementIndices(s) : s.allocated_elements_to_nodes[e] = id}

\* growth: larger arrays, the old contents copied
grow_nodes(s, non) ==
    [s EXCEPT
        !.NoN = non,
        !.allocated_nodes = [i \in 0..(non - 1) |-> IF i < s.NoN THEN s.allocated_nodes[i] ELSE 0],
        !.allocated_node_parents =
            [i \in 0..(non - 1) |-> IF i < s.NoN THEN s.allocated_node_parents[i] ELSE 0],
        !.allocated_node_offsets =
            [i \in 0..(non - 1) |-> IF i < s.NoN THEN s.allocated_node_offsets[i] ELSE 0]]

grow_elements(s, noe) ==
    [s EXCEPT
        !.NoE = noe,
        !.allocated_elements_to_nodes =
            [e \in 0..(noe - 1) |-> IF e < s.NoE THEN s.allocated_elements_to_nodes[e] ELSE 0],
        !.a = [e \in 0..(noe - 1) |-> IF e < s.NoE THEN s.a[e] ELSE 0],
        !.w = [c \in (0..(noe - 1)) \X (0..(noe - 1)) |->
                  IF c[1] < s.NoE /\ c[2] < s.NoE THEN s.w[c] ELSE 0]]

\* the index a new node gets: the requested one, else the lowest free index,
\* else the first index past the current capacity (growth)
new_node_id(s, id_req) ==
    IF id_req # NoId THEN id_req
    ELSE IF \E i \in 1..(s.NoN - 1) : s.allocated_nodes[i] = 0
         THEN CHOOSE i \in 1..(s.NoN - 1) :
                  /\ s.allocated_nodes[i] = 0
                  /\ \A j \in 1..(i - 1) : s.allocated_nodes[j] # 0
         ELSE s.NoN

block_is_free(s, o, n) ==
    \A e \in o..(o + n - 1) : e >= s.NoE \/ s.allocated_elements_to_nodes[e] = 0

\* the offset of a new block of n elements: first fit, growing at the end
first_fit(s, n) ==
    CHOOSE o \in 0..s.NoE :
        /\ block_is_free(s, o, n)
        /\ \A p \in 0..(o - 1) : ~block_is_free(s, p, n)

\* why section.create_node refuses: the requested index names a live node,
\* the type is not in the catalog, or the parent is no nodespace
section_create_node_fails(s, nodetype, nodespace_id, id_req, nm) ==
    \/ (id_req # NoId /\ (id_req < 1 \/ section_is_node(s, id_req)))
    \/ ~has_nodetype(nodetype, nm)
    \/ ~section_is_nodespace(s, nodespace_id)

section_create_node(s, nodetype, nodespace_id, id_req, parameters, nm) ==
    LET num == get_numerical_node_type(nodetype, nm)
        n   == get_elements_per_type(num, nm)
        id  == new_node_id(s, id_req)
        s1  == IF id >= s.NoN THEN grow_nodes(s, id + 1) ELSE s
        o   == first_fit(s1, n)
        s2  == IF o + n > s1.NoE THEN grow_elements(s1, o + n) ELSE s1
        uid == node_to_id(id, s.sid)
    IN  [s2 EXCEPT
            !.allocated_nodes[id] = num,
            !.allocated_node_parents[id] = nodespace_id,
            !.allocated_node_offsets[id] = o,
            !.allocated_elements_to_nodes =
                [e \in ElementIndices(s2) |-> IF e >= o /\ e < o + n THEN id ELSE @[e]],
            !.a = [e \in ElementIndices(s2) |-> IF e >= o /\ e < o + n THEN 0 ELSE @[e]],
            !.native_module_instances =
                IF num > MAX_STD_NODETYPE
                THEN [u \in DOMAIN @ \cup {uid} |->
                         IF u = uid THEN [type |-> nodetype, parameters |-> parameters,
                                          state |-> EmptyMap]
                         ELSE @[u]]
                ELSE @]

\* the capacities section.create_node needs stay within the model's caps
create_node_fits(s, nodetype, id_req, nm) ==
    LET n  == get_elements_per_type(get_numerical_node_type(nodetype, nm), nm)
        id == new_node_id(s, id_req)
        s1 == IF id >= s.NoN THEN grow_nodes(s, id + 1) ELSE s
    IN  id < MaxNoN /\ Max(first_fit(s1, n) + n, s.NoE) <= Max(Max(MaxNoE, n), s.NoE)

\* announce_nodes: the arrays are grown ahead so that number_of_nodes more nodes
\* of average_elements_per_node elements fit; nothing that exists moves
section_announce_nodes(s, number_of_nodes, average_elements_per_node) ==
    LET free_nodes    == Cardinality({i \in 1..(s.NoN - 1) : s.allocated_nodes[i] = 0})
        free_elements == Cardinality({e \in ElementIndices(s) :
                                         s.allocated_elements_to_nodes[e] = 0})
        wanted        == number_of_nodes * average_elements_per_node
        non == IF number_of_nodes > free_nodes
               THEN s.NoN + (number_of_nodes - free_nodes) ELSE s.NoN
        noe == IF wanted > free_elements THEN s.NoE + (wanted - free_elements) ELSE s.NoE
    IN  grow_elements(grow_nodes(s, non), noe)

\* delete_node: existence flag, offset and parent cleared, the element block
\* freed, its rows and columns of the link matrix zeroed
section_delete_node(s, id) ==
    LET blk == ElementsOf(s, id)
        uid == node_to_id(id, s.sid)
    IN  [s EXCEPT
            !.allocated_nodes[id] = 0,
            !.allocated_node_parents[id] = 0,
            !.allocated_node_offsets[id] = 0,
            !.allocated_elements_to_nodes = [e \in ElementIndices(s) |-> IF e \in blk THEN 0 ELSE @[e]],
            !.w = [c \in DOMAIN @ |-> IF c[1] \in blk \/ c[2] \in blk THEN 0 ELSE @[c]],
            !.native_module_instances = [u \in DOMAIN @ \ {uid} |-> @[u]]]

\* the descriptor of a live node's type
node_type_of(s, id, nm) == get_nodetype(get_string_node_type(s.allocated_nodes[id], nm), nm)

\* why section.set_link_weight refuses: an endpoint is no live node, or the
\* gate / slot name is not in the endpoint's type descriptor
section_set_link_weight_fails(s, source_id, gate_type, target_id, slot_type, nm) ==
    \/ ~section_is_node(s, source_id)
    \/ ~section_is_node(s, target_id)
    \/ get_numerical_gate_type(gate_type, node_type_of(s, source_id, nm)) < 0
    \/ get_numerical_slot_type(slot_type, node_type_of(s, target_id, nm)) < 0

\* set_link_weight: the cell (target slot element, source gate element)
section_set_link_weight(s, source_id, gate_type, target_id, slot_type, weight, nm) ==
    LET ngt == get_numerical_gate_type(gate_type, node_type_of(s, source_id, nm))
        nst == get_numerical_slot_type(slot_type, node_type_of(s, target_id, nm))
        x   == s.allocated_node_offsets[target_id] + nst
        y   == s.allocated_node_offsets[source_id] + ngt
    IN  [s EXCEPT !.w[<<x, y>>] = weight]

\* number of links (nonzero cells) of the matrix
NumLinks(s) == Cardinality({c \in DOMAIN s.w : s.w[c] # 0})

\* create_nodespace: the requested index, else the lowest free one above the root
new_nodespace_id(s, id_req) ==
    IF id_req # NoId THEN id_req
    ELSE CHOOSE i \in 2..INITIAL_NUMBER_OF_NODESPACES :
             /\ (i = INITIAL_NUMBER_OF_NODESPACES \/ s.allocated_nodespaces[i] = 0)
             /\ \A j \in 2..(i - 1) : s.allocated_nodespaces[j] # 0

section_create_nodespace_fails(s, parent_id, id_req) ==
    \/ (id_req # NoId /\ (id_req < 1 \/ (id_req < INITIAL_NUMBER_OF_NODESPACES
                                           /\ s.allocated_nodespaces[id_req] # 0)))
    \/ (new_nodespace_id(s, id_req) # 1 /\ ~section_is_nodespace(s, parent_id))
    \/ new_nodespace_id(s, id_req) >= INITIAL_NUMBER_OF_NODESPACES

section_create_nodespace(s, parent_id, id_req) ==
    [s EXCEPT !.allocated_nodespaces[new_nodespace_id(s, id_req)] = parent_id]

\* the nodespaces of the subtree below and including nodespace id
RECURSIVE SubtreeUpTo(_, _, _)
SubtreeUpTo(s, found, k) ==
    IF k = 0 THEN found
    ELSE SubtreeUpTo(s,
            found \cup {i \in 2..(INITIAL_NUMBER_OF_NODESPACES - 1) :
                           s.allocated_nodespaces[i] \in found},
            k - 1)

nodespace_subtree(s, id) == SubtreeUpTo(s, {id}, INITIAL_NUMBER_OF_NODESPACES)

\* the nodes contained in nodespace id or in one of its descendants
nodes_in_subtree(s, id) ==
    {i \in 1..(s.NoN - 1) :
        s.allocated_nodes[i] # 0 /\ s.allocated_node_parents[i] \in nodespace_subtree(s, id)}

RECURSIVE delete_nodes(_, _)
delete_nodes(s, ids) ==
    IF ids = {} THEN s
    ELSE LET id == CHOOSE i \in ids : TRUE
         IN  delete_nodes(section_delete_node(s, id), ids \ {id})

\* delete_nodespace: the contained nodes go through section.delete_node, then
\* the nodespaces of the subtree are freed
section_delete_nodespace(s, id) ==
    LET sub == nodespace_subtree(s, id)
        s1  == delete_nodes(s, nodes_in_subtree(s, id))
    IN  [s1 EXCEPT !.allocated_nodespaces = [i \in DOMAIN @ |-> IF i \in sub THEN 0 ELSE @[i]]]

\* the uids whose supplements a delete_nodespace clears
supplements_of_subtree(s, id) ==
    {node_to_id(i, s.sid) : i \in nodes_in_subtree(s, id)}
        \cup {nodespace_to_id(i) : i \in nodespace_subtree(s, id)}

(* Grouping index: nodegroups[<<nodespace uid, group name>>] is the ordered *)
(* sequence of element indices of the group.                               *)

has_group(s, nodespace_uid, group) == <<nodespace_uid, group>> \in DOMAIN s.nodegroups

section_group_nodes_by_ids_fails(s, ids, gatetype, nm) ==
    \E k \in 1..Len(ids) :
        \/ ~section_is_node(s, ids[k])
        \/ get_numerical_gate_type(gatetype, node_type_of(s, ids[k], nm)) < 0

section_group_nodes_by_ids(s, nodespace_uid, ids, group_name, gatetype, nm) ==
    LET elems == [k \in 1..Len(ids) |->
                     s.allocated_node_offsets[ids[k]]
                         + get_numerical_gate_type(gatetype, node_type_of(s, ids[k], nm))]
        key   == <<nodespace_uid, group_name>>
    IN  [s EXCEPT !.nodegroups =
            [g \in DOMAIN @ \cup {key} |-> IF g = key THEN elems ELSE @[g]]]

section_ungroup_nodes(s, nodespace_uid, group) ==
    [s EXCEPT !.nodegroups = [g \in DOMAIN @ \ {<<nodespace_uid, group>>} |-> @[g]]]

\* set_link_weights: the block rows = group_to, columns = group_from;
\* new_w[i][j] is the weight from the j-th source to the i-th target
section_set_link_weights(s, nodespace_from_uid, group_from, nodespace_to_uid, group_to, new_w) ==
    LET grp_from == s.nodegroups[<<nodespace_from_uid, group_from>>]
        grp_to   == s.nodegroups[<<nodespace_to_uid, group_to>>]
    IN  [s EXCEPT !.w =
            [c \in DOMAIN @ |->
                IF \E i \in 1..Len(grp_to), j \in 1..Len(grp_from) :
                       c = <<grp_to[i], grp_from[j]>>
                THEN LET i == CHOOSE i \in 1..Len(grp_to) :
                                  \E j \in 1..Len(grp_from) : c = <<grp_to[i], grp_from[j]>>
                         j == CHOOSE j \in 1..Len(grp_from) : c = <<grp_to[i], grp_from[j]>>
                     IN  new_w[i][j]
                ELSE @[c]]]

\* the node uids of a group (allocated_elements_to_nodes of its elements)
group_node_uids(s, nodespace_uid, group) ==
    [k \in 1..Len(s.nodegroups[<<nodespace_uid, group>>]) |->
        node_to_id(s.allocated_elements_to_nodes[s.nodegroups[<<nodespace_uid, group>>][k]], s.sid)]

----------------------------------------------------------------------------
(* The facade, TheanoNodenet.  Its operations are functions of the nodenet *)
(* state st, a record of the fields below; an operation that raises        *)
(* returns the state reached when the exception left it, with ok = FALSE.  *)

MapPut(m, k, v) == [x \in DOMAIN m \cup {k} |-> IF x = k THEN v ELSE m[x]]

MapDel(m, k) == [x \in DOMAIN m \ {k} |-> m[x]]

MapGet(m, k, default) == IF k \in DOMAIN m THEN m[k] ELSE default

SeqContains(seq, x) == \E k \in 1..Len(seq) : seq[k] = x

\* list.remove(x): the first occurrence goes
SeqRemove(seq, x) ==
    LET k == CHOOSE i \in 1..Len(seq) : seq[i] = x /\ \A j \in 1..(i - 1) : seq[j] # x
    IN  SubSeq(seq, 1, k - 1) \o SubSeq(seq, k + 1, Len(seq))

NetState ==
    [section |-> section,
     positions |-> positions,
     names |-> names,
     sensormap |-> sensormap,
     inverted_sensor_map |-> inverted_sensor_map,
     actuatormap |-> actuatormap,
     inverted_actuator_map |-> inverted_actuator_map,
     proxycache |-> proxycache,
     native_modules |-> native_modules]

Ok(st, value) == [st |-> st, ok |-> TRUE, value |-> value]

Raise(st) == [st |-> st, ok |-> FALSE, value |-> None]

\* get_section: every uid is served by the root section
get_section(uid) == "root"

\* get_nodespace(uid).uid: None names the root; the proxy is cached
get_nodespace_uid(uid) == IF uid = None THEN nodespace_to_id(1) ELSE uid

get_nodespace(st, uid) ==
    [st EXCEPT !.proxycache = @ \cup {get_nodespace_uid(uid)}]

is_node(st, uid) ==
    node_from_id(uid) < st.section.NoN /\ st.section.allocated_nodes[node_from_id(uid)] # 0

get_nodespace_uids(st) ==
    {nodespace_to_id(id) : id \in {i \in DOMAIN st.section.allocated_nodespaces :
                                      st.section.allocated_nodespaces[i] # 0}}
        \cup {nodespace_to_id(1)}

is_nodespace(st, uid) == uid \in get_nodespace_uids(st)

\* section.comment_instances: the objects of the live comment nodes
comment_instances(s) ==
    {node_to_id(i, s.sid) :
        i \in {j \in NodeIndices(s) :
                  s.allocated_nodes[j] = get_numerical_node_type("Comment", EmptyMap)}}

\* get_node: native module and comment instances first, then the cache, then a
\* new proxy
get_node(st, uid) ==
    IF uid \in DOMAIN st.section.native_module_instances THEN Ok(st, uid)
    ELSE IF uid \in comment_instances(st.section) THEN Ok(st, uid)
    ELSE IF uid \in st.proxycache THEN Ok(st, uid)
    ELSE IF is_node(st, uid) THEN Ok([st EXCEPT !.proxycache = @ \cup {uid}], uid)
    ELSE Raise(st)

\* clear_supplements: proxy cache, names and positions forget the uid
clear_supplements_keeps_names(st, uid) ==
    [st EXCEPT !.proxycache = @ \ {uid},
               !.positions = MapDel(@, uid)]

clear_supplements(st, uid) ==
    [st EXCEPT !.proxycache = @ \ {uid},
               !.names = MapDel(@, uid),
               !.positions = MapDel(@, uid)]

\* create_node, lines 529-531: the numeric index of the requested uid
create_node_id_to_pass_ignores_uid(uid) == NoId

create_node_id_to_pass(uid) == IF uid # None THEN node_from_id(uid) ELSE NoId

\* create_node, line 534: the uid handed back for the allocated index
create_node_uid_off_by_one(id, sid) == node_to_id(id + 1, sid)

create_node_uid_of_next_section(id, sid) == node_to_id(id, sid + 1)

create_node_uid(id, sid) == node_to_id(id, sid)

\* create_node, lines 536-559: positions, names, sensor and actuator maps
create_node_supplements(st, nodetype, id, uid, position, name, parameters) ==
    LET st1 == IF position # None THEN [st EXCEPT !.positions = MapPut(@, uid, position)] ELSE st
        st2 == IF name # None /\ name # uid THEN [st1 EXCEPT !.names = MapPut(@, uid, name)] ELSE st1
    IN  IF nodetype = "Sensor" /\ "datasource" \in DOMAIN parameters
        THEN [st2 EXCEPT
                !.sensormap = MapPut(@, parameters.datasource,
                                     Append(MapGet(@, parameters.datasource, <<>>), id)),
                !.inverted_sensor_map = MapPut(@, uid, parameters.datasource)]
        ELSE IF nodetype = "Actor" /\ "datatarget" \in DOMAIN parameters
        THEN [st2 EXCEPT
                !.actuatormap = MapPut(@, parameters.datatarget,
                                       Append(MapGet(@, parameters.datatarget, <<>>), id)),
                !.inverted_actuator_map = MapPut(@, uid, parameters.datatarget)]
        ELSE st2

create_node(st, nodetype, nodespace_uid, position, name, uid, parameters) ==
    LET st0          == get_nodespace(st, nodespace_uid)
        nodespace_id == nodespace_from_id(get_nodespace_uid(nodespace_uid))
        id_to_pass   == create_node_id_to_pass(uid)
    IN  IF section_create_node_fails(st0.section, nodetype, nodespace_id, id_to_pass,
                                     st0.native_modules)
        THEN Raise(st0)
        ELSE LET id     == new_node_id(st0.section, id_to_pass)
                 newuid == create_node_uid(id, st0.section.sid)
                 st1    == [st0 EXCEPT !.section =
                               section_create_node(@, nodetype, nodespace_id, id_to_pass,
                                                   parameters, st0.native_modules)]
             IN  Ok(create_node_supplements(st1, nodetype, id, newuid, position, name,
                                            parameters),
                    newuid)

\* delete_node, lines 569-585: the sensor / actuator association of the uid goes
remove_association(map, inverted, uid, node_id) ==
    IF uid \notin DOMAIN inverted THEN [map |-> map, inverted |-> inverted, ok |-> TRUE]
    ELSE LET key == inverted[uid]
             inv == MapDel(inverted, uid)
         IN  IF key \notin DOMAIN map THEN [map |-> map, inverted |-> inv, ok |-> TRUE]
             ELSE IF ~SeqContains(map[key], node_id)
             THEN [map |-> map, inverted |-> inv, ok |-> FALSE]
             ELSE IF Len(map[key]) = 1
             THEN [map |-> MapDel(map, key), inverted |-> inv, ok |-> TRUE]
             ELSE [map |-> MapPut(map, key, SeqRemove(map[key], node_id)),
                   inverted |-> inv, ok |-> TRUE]

delete_node(st, uid) ==
    LET node_id == node_from_id(uid)
    IN  IF ~section_is_node(st.section, node_id) THEN Raise(st)
        ELSE LET st1 == [st EXCEPT !.section = section_delete_node(@, node_id)]
                 rs  == remove_association(st1.sensormap, st1.inverted_sensor_map, uid, node_id)
                 st2 == [st1 EXCEPT !.sensormap = rs.map, !.inverted_sensor_map = rs.inverted]
                 ra  == remove_association(st2.actuatormap, st2.inverted_actuator_map, uid, node_id)
                 st3 == [st2 EXCEPT !.actuatormap = ra.map, !.inverted_actuator_map = ra.inverted]
             IN  IF ~rs.ok THEN Raise(st2)
                 ELSE IF ~ra.ok THEN Raise(st3)
                 ELSE Ok(clear_supplements(st3, uid), None)

\* create_nodespace, lines 633-637: the parent index
create_nodespace_parent_id(parent_uid, uid) ==
    IF parent_uid # None THEN nodespace_from_id(parent_uid)
    ELSE IF uid # nodespace_to_id(1) THEN 1
    ELSE 0

create_nodespace(st, parent_uid, position, name, uid) ==
    LET parent_id  == create_nodespace_parent_id(parent_uid, uid)
        id_to_pass == IF uid # None THEN nodespace_from_id(uid) ELSE NoId
    IN  IF section_create_nodespace_fails(st.section, parent_id, id_to_pass) THEN Raise(st)
        ELSE LET id     == new_nodespace_id(st.section, id_to_pass)
                 newuid == nodespace_to_id(id)
                 st1    == [st EXCEPT !.section = section_create_nodespace(@, parent_id, id_to_pass)]
                 st2    == IF name # None /\ name # newuid
                           THEN [st1 EXCEPT !.names = MapPut(@, newuid, name)] ELSE st1
                 st3    == IF position # None
                           THEN [st2 EXCEPT !.positions = MapPut(@, newuid, position)] ELSE st2
             IN  Ok(st3, newuid)

\* delete_nodespace, line 655: the root must not be deleted
delete_nodespace_is_root_unchecked(nodespace_uid) == FALSE

delete_nodespace_is_root(nodespace_uid) ==
    nodespace_uid = None \/ nodespace_uid = get_nodespace_uid(None)

RECURSIVE clear_all_supplements(_, _)
clear_all_supplements(st, uids) ==
    IF uids = {} THEN st
    ELSE LET u == CHOOSE x \in uids : TRUE
         IN  clear_all_supplements(clear_supplements(st, u), uids \ {u})

delete_nodespace(st, nodespace_uid) ==
    IF nodespace_uid = None THEN Raise(st)
    ELSE LET st0 == get_nodespace(st, None)
         IN  IF delete_nodespace_is_root(nodespace_uid) THEN Raise(st0)
             ELSE LET nodespace_id == nodespace_from_id(nodespace_uid)
                  IN  IF ~section_is_nodespace(st0.section, nodespace_id) THEN Raise(st0)
                      ELSE Ok(clear_all_supplements(
                                  [st0 EXCEPT !.section = section_delete_nodespace(@, nodespace_id)],
                                  supplements_of_subtree(st0.section, nodespace_id)),
                              None)

\* set_link_weight, lines 704-708: links between two sections are refused
set_link_weight_crosses_sections(source_node_uid, target_node_uid) ==
    get_section(target_node_uid) # get_section(source_node_uid)

\* set_link_weight, lines 710-712: the section is handed source and target
set_link_weight_swapped(st, source_node_uid, gate_type, target_node_uid, slot_type, weight) ==
    LET source_node_id == node_from_id(source_node_uid)
        target_node_id == node_from_id(target_node_uid)
    IN  IF section_set_link_weight_fails(st.section, target_node_id, gate_type,
                                         source_node_id, slot_type, st.native_modules)
        THEN Raise(st)
        ELSE Ok([st EXCEPT !.section =
                    section_set_link_weight(@, target_node_id, gate_type, source_node_id,
                                            slot_type, weight, st.native_modules)],
                TRUE)

set_link_weight(st, source_node_uid, gate_type, target_node_uid, slot_type, weight) ==
    IF set_link_weight_crosses_sections(source_node_uid, target_node_uid) THEN Raise(st)
    ELSE LET source_node_id == node_from_id(source_node_uid)
             target_node_id == node_from_id(target_node_uid)
         IN  IF section_set_link_weight_fails(st.section, source_node_id, gate_type,
                                              target_node_id, slot_type, st.native_modules)
             THEN Raise(st)
             ELSE Ok([st EXCEPT !.section =
                         section_set_link_weight(@, source_node_id, gate_type, target_node_id,
                                                 slot_type, weight, st.native_modules)],
                     TRUE)

create_link(st, source_node_uid, gate_type, target_node_uid, slot_type, weight) ==
    set_link_weight(st, source_node_uid, gate_type, target_node_uid, slot_type, weight)

delete_link(st, source_node_uid, gate_type, target_node_uid, slot_type) ==
    set_link_weight(st, source_node_uid, gate_type, target_node_uid, slot_type, 0)

\* the gate / slot name of a numeric gate / slot of a numeric node type
gate_name(num, type_num, nm) ==
    IF num >= 0 /\ num < get_gates_per_type(type_num, nm)
    THEN get_string_gate_type(num, get_nodetype(get_string_node_type(type_num, nm), nm))
    ELSE "invalid"

slot_name(num, type_num, nm) ==
    IF num >= 0 /\ num < get_slots_per_type(type_num, nm)
    THEN get_string_slot_type(num, get_nodetype(get_string_node_type(type_num, nm), nm))
    ELSE "invalid"

linkdata(source_uid, gate, slot, target_uid, weight) ==
    [uid |-> <<source_uid, gate, slot, target_uid>>,
     weight |-> weight,
     certainty |-> 1,
     source_gate_name |-> gate,
     source_node_uid |-> source_uid,
     target_slot_name |-> slot,
     target_node_uid |-> target_uid]

\* construct_links_dict, lines 849-873: the links found in the gate columns of node_id
links_by_gate_column(s, node_id, nm) ==
    LET source_type == s.allocated_nodes[node_id]
    IN  {LET target_id == s.allocated_elements_to_nodes[gi[2]]
             column    == s.allocated_node_offsets[node_id] + gi[1]
         IN  linkdata(node_to_id(node_id, s.sid),
                      gate_name(gi[1], source_type, nm),
                      slot_name(gi[2] - s.allocated_node_offsets[target_id],
                                s.allocated_nodes[target_id], nm),
                      node_to_id(target_id, s.sid),
                      s.w[<<gi[2], column>>]) :
         gi \in {x \in (0..(get_gates_per_type(source_type, nm) - 1)) \X ElementIndices(s) :
                    s.w[<<x[2], s.allocated_node_offsets[node_id] + x[1]>>] # 0}}

\* construct_links_dict, lines 875-903: the links found in the slot rows of node_id
links_by_slot_row(s, node_id, nm) ==
    LET target_type == s.allocated_nodes[node_id]
    IN  {LET source_id == s.allocated_elements_to_nodes[si[2]]
             row       == s.allocated_node_offsets[node_id] + si[1]
         IN  linkdata(node_to_id(source_id, s.sid),
                      gate_name(si[2] - s.allocated_node_offsets[source_id],
                                s.allocated_nodes[source_id], nm),
                      slot_name(si[1], target_type, nm),
                      node_to_id(node_id, s.sid),
                      s.w[<<row, si[2]>>]) :
         si \in {x \in (0..(get_slots_per_type(target_type, nm) - 1)) \X ElementIndices(s) :
                    s.w[<<s.allocated_node_offsets[node_id] + x[1], x[2]>>] # 0}}

\* construct_links_dict(None): data[linkuid] = linkdata over all live nodes in
\* ascending order, the gate columns of a node before its slot rows; a later
\* entry with the same linkuid replaces the earlier one
construct_links_dict(st) ==
    LET s        == st.section
        nm       == st.native_modules
        node_ids == {i \in NodeIndices(s) : s.allocated_nodes[i] # 0}
        bycol    == UNION {links_by_gate_column(s, i, nm) : i \in node_ids}
        byrow    == UNION {links_by_slot_row(s, i, nm) : i \in node_ids}
        keys     == {l.uid : l \in bycol \cup byrow}
        rowlast(k) == \E l \in byrow : l.uid = k /\ node_from_id(k[4]) >= node_from_id(k[1])
    IN  [k \in keys |->
            IF rowlast(k) \/ ~\E l \in bycol : l.uid = k
            THEN CHOOSE l \in byrow : l.uid = k
            ELSE CHOOSE l \in bycol : l.uid = k]

\* sorted(ids): the ascending sequence of a set of numbers
RECURSIVE SortedSeq(_)
SortedSeq(S) ==
    IF S = {} THEN <<>>
    ELSE LET m == CHOOSE x \in S : \A y \in S : x <= y
         IN  <<m>> \o SortedSeq(S \ {m})

\* group_nodes_by_ids with sortby = 'id'
group_nodes_by_ids(st, nodespace_uid, node_uids, group_name, gatetype) ==
    LET ns_uid == get_nodespace_uid(nodespace_uid)
        st0    == IF nodespace_uid = None THEN get_nodespace(st, None) ELSE st
        ids    == SortedSeq({node_from_id(uid) : uid \in node_uids})
    IN  IF section_group_nodes_by_ids_fails(st0.section, ids, gatetype, st0.native_modules)
        THEN Raise(st0)
        ELSE Ok([st0 EXCEPT !.section =
                    section_group_nodes_by_ids(@, ns_uid, ids, group_name, gatetype,
                                               st0.native_modules)],
                None)

ungroup_nodes(st, nodespace_uid, group) ==
    LET ns_uid == get_nodespace_uid(nodespace_uid)
        st0    == IF nodespace_uid = None THEN get_nodespace(st, None) ELSE st
    IN  IF ~has_group(st0.section, ns_uid, group) THEN Raise(st0)
        ELSE Ok([st0 EXCEPT !.section = section_ungroup_nodes(@, ns_uid, group)], None)

\* get_node_uids(nodespace, group)
get_node_uids(st, group_nodespace_uid, group) ==
    group_node_uids(st.section, get_nodespace_uid(group_nodespace_uid), group)

SeqRange(seq) == {seq[k] : k \in 1..Len(seq)}

\* set_link_weights: the block is written, then the proxies of the member nodes
\* of both groups leave the cache
set_link_weights(st, nodespace_from_uid, group_from, nodespace_to_uid, group_to, new_w) ==
    LET from_uid == get_nodespace_uid(nodespace_from_uid)
        to_uid   == get_nodespace_uid(nodespace_to_uid)
        st0      == IF nodespace_from_uid = None \/ nodespace_to_uid = None
                    THEN get_nodespace(st, None) ELSE st
    IN  IF get_section(to_uid) # get_section(from_uid) THEN Raise(st0)
        ELSE IF ~has_group(st0.section, from_uid, group_from)
                \/ ~has_group(st0.section, to_uid, group_to)
        THEN Raise(st0)
        ELSE LET st1 == [st0 EXCEPT !.section =
                            section_set_link_weights(@, from_uid, group_from, to_uid, group_to, new_w)]
                 uids_to_invalidate ==
                     SeqRange(get_node_uids(st1, from_uid, group_from))
                         \cup SeqRange(get_node_uids(st1, to_uid, group_to))
             IN  Ok([st1 EXCEPT !.proxycache = @ \ uids_to_invalidate], None)

\* announce_nodes, lines 520-522
announce_nodes_allocates(st, nodespace_uid, number_of_nodes, average_elements_per_node) ==
    create_node(st, "Register", nodespace_uid, None, None, None, EmptyMap)

announce_nodes(st, nodespace_uid, number_of_nodes, average_elements_per_node) ==
    Ok([st EXCEPT !.section =
           section_announce_nodes(@, number_of_nodes, average_elements_per_node)],
       None)

(* reload_native_modules *)

\* instance.data of a native module instance, as far as create_node reads it
instance_data(st, uid) ==
    [type |-> st.section.native_module_instances[uid].type,
     parent_nodespace |->
         nodespace_to_id(st.section.allocated_node_parents[node_from_id(uid)]),
     position |-> MapGet(st.positions, uid, None),
     name |-> MapGet(st.names, uid, None),
     parameters |-> st.section.native_module_instances[uid].parameters]

\* lines 733-738: the instances whose type the new catalog no longer defines
instances_to_delete(st, nm) ==
    {uid \in DOMAIN st.section.native_module_instances :
        st.section.native_module_instances[uid].type \notin DOMAIN nm}

\* lines 740-746: the instances whose number of elements differs under the new catalog
instances_to_recreate_none(st, nm) == {}

instances_to_recreate(st, nm) ==
    {uid \in DOMAIN st.section.native_module_instances \ instances_to_delete(st, nm) :
        LET type == st.section.native_module_instances[uid].type
        IN  Cardinality(ElementsOf(st.section, node_from_id(uid)))
                # Max(Len(nm[type].slottypes), Len(nm[type].gatetypes))}

RECURSIVE delete_all_nodes(_, _)
delete_all_nodes(st, uids) ==
    IF uids = {} THEN st
    ELSE LET u == CHOOSE x \in uids : TRUE
         IN  delete_all_nodes(delete_node(st, u).st, uids \ {u})

\* lines 777-784: a deleted instance comes back under its old uid
recreate(st, uid, data) ==
    create_node(st, data.type, data.parent_nodespace, data.position, data.name, uid,
                data.parameters).st

RECURSIVE recreate_all(_, _, _)
recreate_all(st, uids, data) ==
    IF uids = {} THEN st
    ELSE LET u == CHOOSE x \in uids : TRUE
         IN  recreate_all(recreate(st, u, data[u]), uids \ {u}, data)

\* lines 788-791: the numeric type of every native module node is looked up
\* again in the new catalog
update_numeric_types(st) ==
    [st EXCEPT !.section.allocated_nodes =
        [i \in DOMAIN @ |->
            IF @[i] > MAX_STD_NODETYPE
                  /\ node_to_id(i, st.section.sid) \in DOMAIN st.section.native_module_instances
            THEN get_numerical_node_type(
                     st.section.native_module_instances[node_to_id(i, st.section.sid)].type,
                     st.native_modules)
            ELSE @[i]]]

\* reload_native_modules(native_modules); ctor_ok says whether the TheanoNode
\* constructor call of line 766, which passes one argument less than the call
\* of line 497, returns (it is reached only when an instance survives)
reload_native_modules(st, nm, ctor_ok) ==
    LET data == [uid \in instances_to_recreate(st, nm) |-> instance_data(st, uid)]
        st1  == delete_all_nodes(st, instances_to_delete(st, nm))
        st2  == delete_all_nodes(st1, instances_to_recreate(st, nm))
        st3  == [st2 EXCEPT !.native_modules = nm]
    IN  IF DOMAIN st3.section.native_module_instances # {} /\ ~ctor_ok THEN Raise(st3)
        ELSE Ok(update_numeric_types(recreate_all(st3, DOMAIN data, data)), None)

----------------------------------------------------------------------------
(* Step pipeline *)

Operators_without_propagate == <<"Calculate", "PORRETDecay", "Modulators">>

\* the list initialize_stepoperators builds, lines 264-268, before it is sorted
Operators == <<"Propagate", "Calculate", "PORRETDecay", "Modulators">>

\* the priority of a step operator
operator_priority(op) ==
    CASE op = "Propagate" -> 0
      [] op = "Calculate" -> 1
      [] op = "PORRETDecay" -> 100
      [] op = "Modulators" -> 1000

\* line 269: the key the operators are sorted by
sort_key_negated(op) == 0 - operator_priority(op)

sort_key(op) == operator_priority(op)

\* list.sort: a stable sort by the key; the operator at position i of ops goes
\* behind those with a smaller key and those with the same key before it
sorted_position(ops, i) ==
    1 + Cardinality({j \in 1..Len(ops) :
                        \/ sort_key(ops[j]) < sort_key(ops[i])
                        \/ (sort_key(ops[j]) = sort_key(ops[i]) /\ j < i)})

sorted_operators(ops) ==
    [k \in 1..Len(ops) |-> ops[CHOOSE i \in 1..Len(ops) : sorted_position(ops, i) = k]]

initialize_stepoperators_decay_first ==
    <<"PORRETDecay", "Propagate", "Calculate", "Modulators">>

initialize_stepoperators == sorted_operators(Operators)

RECURSIVE SumOver(_, _)
SumOver(f, S) ==
    IF S = {} THEN 0
    ELSE LET x == CHOOSE y \in S : TRUE
         IN  f[x] + SumOver(f, S \ {x})

\* Propagate: the activation of an element becomes the weighted sum over the
\* links into it
Propagate_execute(s) ==
    [s EXCEPT !.a =
        [e \in DOMAIN @ |->
            SumOver([j \in ElementIndices(s) |-> s.w[<<e, j>>] * s.a[j]], ElementIndices(s))
                \div Scale]]

\* the gate function of the standard node types' defaults: identity
gate_function(x) == x

\* Calculate: the gate function is applied to the elements of live nodes
Calculate_execute(s) ==
    [s EXCEPT !.a =
        [e \in DOMAIN @ |->
            IF s.allocated_elements_to_nodes[e] # 0 THEN gate_function(@[e]) ELSE @[e]]]

\* the columns of the por and ret gates of the live Pipe nodes
por_ret_columns(s, nm) ==
    {e \in ElementIndices(s) :
        LET i == s.allocated_elements_to_nodes[e]
        IN  /\ i # 0
            /\ s.allocated_nodes[i] = get_numerical_node_type("Pipe", nm)
            /\ gate_name(e - s.allocated_node_offsets[i], s.allocated_nodes[i], nm)
                   \in {"por", "ret"}}

\* PORRETDecay: the por / ret links lose the share por_ret_decay of their weight
PORRETDecay_execute(s, mods, nm) ==
    IF mods.por_ret_decay = 0 THEN s
    ELSE [s EXCEPT !.w =
            [c \in DOMAIN @ |->
                IF c[2] \in por_ret_columns(s, nm)
                THEN (@[c] * (Scale - mods.por_ret_decay)) \div Scale
                ELSE @[c]]]

\* operator.execute(nodenet, None, netapi)
execute(op, st, mods) ==
    CASE op = "Propagate" ->
            [st |-> [st EXCEPT !.section = Propagate_execute(@)], modulators |-> mods]
      [] op = "Calculate" ->
            [st |-> [st EXCEPT !.section = Calculate_execute(@)], modulators |-> mods]
      [] op = "PORRETDecay" ->
            [st |-> [st EXCEPT !.section = PORRETDecay_execute(@, mods, st.native_modules)],
             modulators |-> mods]
      [] op = "Modulators" -> [st |-> st, modulators |-> mods]

RECURSIVE run_operators(_, _, _)
run_operators_rest(ops, r) == run_operators(ops, r.st, r.modulators)

\* step, lines 478-479: the operators of the list run one after the other
run_operators(ops, st, mods) ==
    IF ops = <<>> THEN [st |-> st, modulators |-> mods]
    ELSE run_operators_rest(Tail(ops), execute(Head(ops), st, mods))

\* set_modulator(modulator, value)
set_modulator(mods, modulator, value) == MapPut(mods, modulator, value)

\* get_modulator(modulator): 1 for a name that has no stored value
get_modulator(mods, modulator) == MapGet(mods, modulator, 1)

\* change_modulator(modulator, diff) with a default that is not the one of
\* get_modulator
change_modulator_from_one(mods, modulator, diff) ==
    MapPut(mods, modulator, MapGet(mods, modulator, 1) + diff)

\* change_modulator(modulator, diff): a name that has no stored value counts as 0
change_modulator(mods, modulator, diff) ==
    MapPut(mods, modulator, MapGet(mods, modulator, 0) + diff)

\* dict.update(other): the entries of other are put over the ones of d
dict_update(d, other) ==
    [k \in DOMAIN d \cup DOMAIN other |-> IF k \in DOMAIN other THEN other[k] ELSE d[k]]

\* construct_modulators_dict: self.__modulators.copy(), a dict of its own
construct_modulators_dict(mods) == [value |-> mods, shared |-> FALSE]

\* step, line 477, and load, line 295: `with self.netlock` enters when the lock is free
with_netlock_enters_always(lock) == TRUE

with_netlock_enters(lock) == lock = "free"

\* set_activations of the section: the activations of the group's elements
section_set_activations(s, nodespace_uid, group, new_activations) ==
    LET grp == s.nodegroups[<<nodespace_uid, group>>]
    IN  [s EXCEPT !.a =
            [e \in DOMAIN @ |->
                IF \E k \in 1..Len(grp) : grp[k] = e
                THEN new_activations[CHOOSE k \in 1..Len(grp) : grp[k] = e]
                ELSE @[e]]]

\* set_activations, lines 1060-1064
set_activations(st, nodespace_uid, group, new_activations) ==
    LET ns_uid == get_nodespace_uid(nodespace_uid)
        st0    == IF nodespace_uid = None THEN get_nodespace(st, None) ELSE st
    IN  IF ~has_group(st0.section, ns_uid, group) THEN Raise(st0)
        ELSE Ok([st0 EXCEPT !.section =
                    section_set_activations(@, ns_uid, group, new_activations)],
                None)

\* load, lines 327-332: the inverted maps get an entry for every id of the maps
invert_map(map, inverted, sid) ==
    [uid \in DOMAIN inverted
               \cup UNION {{node_to_id(map[key][k], sid) : k \in 1..Len(map[key])} :
                           key \in DOMAIN map} |->
        IF \E key \in DOMAIN map : SeqContains(map[key], node_from_id(uid))
        THEN CHOOSE key \in DOMAIN map : SeqContains(map[key], node_from_id(uid))
        ELSE inverted[uid]]

----------------------------------------------------------------------------
(* Inputs of the calls *)

RootUid == nodespace_to_id(1)

NodeUids == {node_to_id(i, 0) : i \in 1..(MaxNoN - 1)}

\* handles that carry the tag of another partition
ForeignUids == {node_to_id(1, 1)}

NodespaceUids == {nodespace_to_id(i) : i \in 2..MaxNodespaceId}

ParameterInputs(nodetype) ==
    IF nodetype = "Sensor" THEN {EmptyMap, [datasource |-> "ds"]}
    ELSE IF nodetype = "Actor" THEN {EmptyMap, [datatarget |-> "dt"]}
    ELSE {EmptyMap}

WeightInputs == {0, Scale \div 2, Scale}

NativeCatalogs ==
    {EmptyMap,
     [NM |-> [gatetypes |-> <<"gen">>, slottypes |-> <<"gen">>]],
     [NM |-> [gatetypes |-> <<"gen", "por">>, slottypes |-> <<"gen">>]]}

GroupNames == {"g"}

----------------------------------------------------------------------------
(* The state after construction: the root nodespace exists, nothing else   *)

Threads == {"t1", "t2"}

\* nothing was saved yet: no metadata file and no data file of this nodenet
NoFiles == [metadata |-> None, data |-> None]

Init ==
    /\ section = InitSection
    /\ positions = EmptyMap
    /\ names = MapPut(EmptyMap, RootUid, <<"R", "o", "o", "t">>)
    /\ sensormap = EmptyMap
    /\ inverted_sensor_map = EmptyMap
    /\ actuatormap = EmptyMap
    /\ inverted_actuator_map = EmptyMap
    /\ proxycache = {}
    /\ native_modules = EmptyMap
    /\ modulators = [por_ret_decay |-> 0]
    /\ stepoperators = initialize_stepoperators
    /\ step = 0
    /\ netlock = "free"
    /\ pc = [t \in Threads |-> "idle"]
    /\ opidx = [t \in Threads |-> 0]
    /\ oplog = <<>>
    /\ disk = NoFiles
    /\ announced = None
    /\ viewcache = EmptyMap
    /\ world = [agents |-> EmptyMap]
    /\ last = [op |-> "init", ok |-> TRUE]

\* the facade fields of the next state are those of st
Apply(st) ==
    /\ section' = st.section
    /\ positions' = st.positions
    /\ names' = st.names
    /\ sensormap' = st.sensormap
    /\ inverted_sensor_map' = st.inverted_sensor_map
    /\ actuatormap' = st.actuatormap
    /\ inverted_actuator_map' = st.inverted_actuator_map
    /\ proxycache' = st.proxycache
    /\ native_modules' = st.native_modules

stepvars == <<modulators, stepoperators, step, netlock, pc, opidx, oplog>>

\* the files on disk and the second nodenet of the growth comparison
envvars == <<disk, announced, viewcache, world>>

(* The node objects get_node hands out keep, per gate and per slot, the    *)
(* list of links they have enumerated, until invalidate_caches is called   *)
(* or the object is dropped.  viewcache[<<uid, "gate" or "slot", type>>]   *)
(* is that list for the object cached under uid.                           *)

\* the links that leave the gate / enter the slot of the node now
current_links(st, uid, kind, type) ==
    {l \in {construct_links_dict(st)[k] : k \in DOMAIN construct_links_dict(st)} :
        IF kind = "gate" THEN l.source_node_uid = uid /\ l.source_gate_name = type
        ELSE l.target_node_uid = uid /\ l.target_slot_name = type}

\* get_links of a gate or slot: the cached list if there is one
get_links(views, st, uid, kind, type) ==
    IF <<uid, kind, type>> \in DOMAIN views THEN views[<<uid, kind, type>>]
    ELSE current_links(st, uid, kind, type)

\* invalidate_caches of one gate or slot
invalidate_caches(views, uid, kind, type) ==
    [k \in DOMAIN views \ {<<uid, kind, type>>} |-> views[k]]

\* the objects of uids are dropped
without_objects(views, uids) == [k \in {x \in DOMAIN views : x[1] \notin uids} |-> views[k]]

\* set_link_weight, lines 715-718
set_link_weight_invalidates(views, cache, source_node_uid, gate_type, target_node_uid, slot_type) ==
    LET v1 == IF source_node_uid \in cache
              THEN invalidate_caches(views, source_node_uid, "gate", gate_type) ELSE views
    IN  IF target_node_uid \in cache
        THEN invalidate_caches(v1, target_node_uid, "slot", slot_type) ELSE v1

\* what create_node / delete_node are compared on: live nodes, occupied
\* elements and links
Occupancy(st) ==
    [nodes |-> {i \in NodeIndices(st.section) : st.section.allocated_nodes[i] # 0},
     elements |-> {e \in ElementIndices(st.section) :
                      st.section.allocated_elements_to_nodes[e] # 0},
     links |-> construct_links_dict(st)]

\* the links construct_links_dict reports with uid as an endpoint
links_of(st, uid) ==
    {k \in DOMAIN construct_links_dict(st) : k[1] = uid \/ k[4] = uid}

CreateNode(nodetype, nodespace_uid, position, name, uid, parameters) ==
    /\ create_node_fits(section, nodetype, create_node_id_to_pass(uid), native_modules)
    /\ \E r \in {create_node(NetState, nodetype, nodespace_uid, position, name, uid,
                               parameters)} :
        /\ Apply(r.st)
        /\ last' = IF r.ok
                   THEN [op |-> "create_node", ok |-> TRUE, uid |-> r.value, requested |-> uid,
                         nodetype |-> nodetype, name |-> name, position |-> position,
                         parameters |-> parameters, before |-> Occupancy(NetState),
                         reuses |-> /\ last.op = "delete_node" /\ last.ok
                                    /\ last.uid = r.value /\ last.had_all]
                   ELSE [op |-> "create_node", ok |-> FALSE, requested |-> uid]
        /\ UNCHANGED <<stepvars, envvars>>

DeleteNode(uid) ==
    \E r \in {delete_node(NetState, uid)} :
        /\ Apply(r.st)
        /\ last' = IF ~r.ok THEN [op |-> "delete_node", ok |-> FALSE, uid |-> uid] ELSE
                   [op |-> "delete_node", ok |-> r.ok, uid |-> uid,
                    had_all |-> /\ links_of(NetState, uid) # {}
                                /\ uid \in DOMAIN names
                                /\ uid \in DOMAIN positions
                                /\ uid \in proxycache
                                /\ uid \in DOMAIN inverted_sensor_map
                                       \cup DOMAIN inverted_actuator_map,
                    undoes_create |-> last.op = "create_node" /\ last.ok /\ last.uid = uid,
                    before |-> IF last.op = "create_node" /\ last.ok /\ last.uid = uid
                               THEN last.before ELSE None]
        /\ viewcache' = IF r.ok THEN without_objects(viewcache, {uid}) ELSE viewcache
        /\ UNCHANGED <<stepvars, disk, announced, world>>

GetNode(uid) ==
    \E r \in {get_node(NetState, uid)} :
        /\ Apply(r.st)
        /\ last' = [op |-> "get_node", ok |-> r.ok, uid |-> uid]
        /\ UNCHANGED <<stepvars, envvars>>

CreateNodespace(parent_uid, position, name, uid) ==
    \E r \in {create_nodespace(NetState, parent_uid, position, name, uid)} :
        /\ Apply(r.st)
        /\ last' = [op |-> "create_nodespace", ok |-> r.ok, uid |-> r.value, requested |-> uid]
        /\ UNCHANGED <<stepvars, envvars>>

DeleteNodespace(nodespace_uid) ==
    \E r \in {delete_nodespace(NetState, nodespace_uid)} :
        /\ Apply(r.st)
        /\ last' = [op |-> "delete_nodespace", ok |-> r.ok, uid |-> nodespace_uid]
        /\ UNCHANGED <<stepvars, envvars>>

SetLinkWeight(source_node_uid, gate_type, target_node_uid, slot_type, weight) ==
    \E r \in {set_link_weight(NetState, source_node_uid, gate_type, target_node_uid, slot_type,
                             weight)} :
        /\ NumLinks(r.st.section) <= MaxLinks
        /\ Apply(r.st)
        /\ last' = IF r.ok
                   THEN [op |-> "set_link_weight", ok |-> TRUE, source |-> source_node_uid,
                         gate |-> gate_type, target |-> target_node_uid, slot |-> slot_type,
                         weight |-> weight,
                         replaces |-> /\ <<source_node_uid, gate_type, slot_type,
                                           target_node_uid>>
                                             \in DOMAIN construct_links_dict(NetState)
                                      /\ weight # 0
                                      /\ construct_links_dict(NetState)
                                             [<<source_node_uid, gate_type, slot_type,
                                                target_node_uid>>].weight # weight]
                   ELSE [op |-> "set_link_weight", ok |-> FALSE, source |-> source_node_uid,
                         target |-> target_node_uid]
        /\ viewcache' = IF r.ok
                        THEN set_link_weight_invalidates(viewcache, proxycache, source_node_uid,
                                                         gate_type, target_node_uid, slot_type)
                        ELSE viewcache
        /\ UNCHANGED <<stepvars, disk, announced, world>>

CreateLink(source_node_uid, gate_type, target_node_uid, slot_type, weight) ==
    \E r \in {create_link(NetState, source_node_uid, gate_type, target_node_uid, slot_type,
                           weight)} :
        /\ NumLinks(r.st.section) <= MaxLinks
        /\ Apply(r.st)
        /\ last' = [op |-> "create_link", ok |-> r.ok, source |-> source_node_uid,
                    target |-> target_node_uid]
        /\ viewcache' = IF r.ok
                        THEN set_link_weight_invalidates(viewcache, proxycache, source_node_uid,
                                                         gate_type, target_node_uid, slot_type)
                        ELSE viewcache
        /\ UNCHANGED <<stepvars, disk, announced, world>>

DeleteLink(source_node_uid, gate_type, target_node_uid, slot_type) ==
    \E r \in {delete_link(NetState, source_node_uid, gate_type, target_node_uid, slot_type)} :
        /\ Apply(r.st)
        /\ last' = [op |-> "delete_link", ok |-> r.ok, source |-> source_node_uid,
                    target |-> target_node_uid]
        /\ viewcache' = IF r.ok
                        THEN set_link_weight_invalidates(viewcache, proxycache, source_node_uid,
                                                         gate_type, target_node_uid, slot_type)
                        ELSE viewcache
        /\ UNCHANGED <<stepvars, disk, announced, world>>

GroupNodes(nodespace_uid, node_uids, group_name) ==
    \E r \in {group_nodes_by_ids(NetState, nodespace_uid, node_uids, group_name, "gen")} :
        /\ Apply(r.st)
        /\ last' = [op |-> "group_nodes_by_ids", ok |-> r.ok]
        /\ UNCHANGED <<stepvars, envvars>>

UngroupNodes(nodespace_uid, group_name) ==
    \E r \in {ungroup_nodes(NetState, nodespace_uid, group_name)} :
        /\ Apply(r.st)
        /\ last' = [op |-> "ungroup_nodes", ok |-> r.ok]
        /\ UNCHANGED <<stepvars, envvars>>

\* new_w: every cell of the block gets the weight
SetLinkWeights(nodespace_from_uid, group_from, nodespace_to_uid, group_to, weight) ==
    \E r \in {set_link_weights(NetState, nodespace_from_uid, group_from, nodespace_to_uid,
                                group_to, [i \in 1..MaxNoE |-> [j \in 1..MaxNoE |-> weight]])} :
        /\ NumLinks(r.st.section) <= MaxLinks
        /\ Apply(r.st)
        /\ last' = [op |-> "set_link_weights", ok |-> r.ok]
        /\ viewcache' = without_objects(viewcache, proxycache \ r.st.proxycache)
        /\ UNCHANGED <<stepvars, disk, announced, world>>

ReloadNativeModules(nm, ctor_ok) ==
    \E r \in {reload_native_modules(NetState, nm, ctor_ok)} :
        /\ r.st.section.NoE <= Max(MaxNoE, section.NoE)
        /\ Apply(r.st)
        /\ last' = [op |-> "reload_native_modules", ok |-> r.ok,
                    recreated |-> instances_to_recreate(NetState, nm) # {}]
        /\ UNCHANGED <<stepvars, envvars>>

SetActivations(nodespace_uid, group, value) ==
    \E r \in {set_activations(NetState, nodespace_uid, group, [k \in 1..MaxNoE |-> value])} :
        /\ Apply(r.st)
        /\ last' = [op |-> "set_activations", ok |-> r.ok]
        /\ UNCHANGED <<stepvars, envvars>>

AnnounceNodes(nodespace_uid, number_of_nodes, average_elements_per_node) ==
    \E r \in {announce_nodes(NetState, nodespace_uid, number_of_nodes,
                              average_elements_per_node)} :
        /\ r.st.section.NoN <= MaxNoN
        /\ r.st.section.NoE <= MaxNoE
        /\ Apply(r.st)
        /\ last' = [op |-> "announce_nodes", ok |-> r.ok]
        /\ UNCHANGED <<stepvars, envvars>>

----------------------------------------------------------------------------
(* step and load, called from threads *)

facadevars == <<section, positions, names, sensormap, inverted_sensor_map, actuatormap,
                inverted_actuator_map, proxycache, native_modules>>

\* cap on the number of step / load / read calls of a behaviour
MaxCalls == 2

Event(t, op, phase) == [thread |-> t, op |-> op, phase |-> phase]

CallsBegun ==
    Cardinality({i \in 1..Len(oplog) : oplog[i].phase \in {"acquire", "metadata"}})
        + Cardinality({t \in Threads :
                          pc[t] \in {"step_enter", "load_enter", "read_enter", "save_enter"}})

\* a thread calls step (no world is attached: nothing to snapshot), load, or
\* wants to read under the lock
Call(t, what) ==
    /\ pc[t] = "idle"
    /\ CallsBegun < MaxCalls
    /\ pc' = [pc EXCEPT ![t] = what]
    /\ UNCHANGED <<facadevars, envvars, modulators, stepoperators, step, netlock, opidx, oplog, last>>

SetModulator(modulator, value) ==
    /\ modulators' = set_modulator(modulators, modulator, value)
    /\ last' = [op |-> "set_modulator", ok |-> TRUE, modulator |-> modulator, value |-> value]
    /\ UNCHANGED <<facadevars, envvars, stepoperators, step, netlock, pc, opidx, oplog>>

\* a second nodenet, built like the first, calls announce_nodes before anything else
AnnounceSecond(number_of_nodes, average_elements_per_node) ==
    /\ announced = None
    /\ last.op = "init"
    /\ \E r \in {announce_nodes(NetState, None, number_of_nodes, average_elements_per_node)} :
        /\ r.st.section.NoN <= MaxNoN
        /\ r.st.section.NoE <= MaxNoE
        /\ announced' = r.st
        /\ last' = [op |-> "announce_nodes", ok |-> r.ok]
        /\ UNCHANGED <<facadevars, stepvars, disk, viewcache, world>>

\* the capacity of the arrays has grown from s to t
Grew(s, t) == t.NoN > s.NoN \/ t.NoE > s.NoE

\* create_node is called on both nodenets with the same arguments
CreateNodeBoth(nodetype, uid) ==
    /\ announced # None
    /\ create_node_fits(section, nodetype, create_node_id_to_pass(uid), native_modules)
    /\ create_node_fits(announced.section, nodetype, create_node_id_to_pass(uid),
                        announced.native_modules)
    /\ \E r \in {create_node(NetState, nodetype, None, None, None, uid, EmptyMap)},
          q \in {create_node(announced, nodetype, None, None, None, uid, EmptyMap)} :
        /\ Apply(r.st)
        /\ announced' = q.st
        /\ last' = [op |-> "create_node", ok |-> r.ok, value |-> r.value,
                    second_ok |-> q.ok, second_value |-> q.value,
                    grew |-> Grew(section, r.st.section),
                    second_grew |-> Grew(announced.section, q.st.section)]
        /\ UNCHANGED <<stepvars, disk, viewcache, world>>

\* set_link_weight is called on both nodenets with the same arguments
SetLinkWeightBoth(source_node_uid, gate_type, target_node_uid, slot_type, weight) ==
    /\ announced # None
    /\ \E r \in {set_link_weight(NetState, source_node_uid, gate_type, target_node_uid,
                                   slot_type, weight)},
          q \in {set_link_weight(announced, source_node_uid, gate_type, target_node_uid,
                                   slot_type, weight)} :
        /\ NumLinks(r.st.section) <= MaxLinks
        /\ Apply(r.st)
        /\ announced' = q.st
        /\ last' = [op |-> "set_link_weight", ok |-> r.ok, value |-> r.value,
                    second_ok |-> q.ok, second_value |-> q.value,
                    grew |-> FALSE, second_grew |-> FALSE]
        /\ UNCHANGED <<stepvars, disk, viewcache, world>>

\* step, line 477: with self.netlock
StepAcquire(t) ==
    /\ pc[t] = "step_enter"
    /\ with_netlock_enters(netlock)
    /\ netlock' = t
    /\ pc' = [pc EXCEPT ![t] = "step_run"]
    /\ opidx' = [opidx EXCEPT ![t] = 1]
    /\ oplog' = Append(oplog, Event(t, "step", "acquire"))
    /\ last' = [op |-> "step_acquire", ok |-> TRUE, thread |-> t, st |-> NetState,
                modulators |-> modulators]
    /\ UNCHANGED <<facadevars, envvars, modulators, stepoperators, step>>

\* step, lines 478-479: the next operator of the list starts
OperatorBegin(t) ==
    /\ pc[t] = "step_run"
    /\ opidx[t] <= Len(stepoperators)
    /\ pc' = [pc EXCEPT ![t] = "op_run"]
    /\ oplog' = Append(oplog, Event(t, stepoperators[opidx[t]], "begin"))
    /\ UNCHANGED <<facadevars, envvars, modulators, stepoperators, step, netlock, opidx, last>>

\* the operator has written the activations / the link matrix and returns
OperatorEnd(t) ==
    /\ pc[t] = "op_run"
    /\ \E r \in {execute(stepoperators[opidx[t]], NetState, modulators)} :
        /\ Apply(r.st)
        /\ modulators' = r.modulators
        /\ pc' = [pc EXCEPT ![t] = "step_run"]
        /\ opidx' = [opidx EXCEPT ![t] = @ + 1]
        /\ oplog' = Append(oplog, Event(t, stepoperators[opidx[t]], "end"))
        /\ UNCHANGED <<envvars, stepoperators, step, netlock, last>>

\* step, line 481, and the end of the with block
StepFinish(t) ==
    /\ pc[t] = "step_run"
    /\ opidx[t] > Len(stepoperators)
    /\ step' = step + 1
    /\ netlock' = "free"
    /\ pc' = [pc EXCEPT ![t] = "idle"]
    /\ oplog' = Append(oplog, Event(t, "step", "release"))
    /\ last' = [op |-> "step", ok |-> TRUE, thread |-> t]
    /\ UNCHANGED <<facadevars, envvars, modulators, stepoperators, opidx>>

\* load, lines 327-332: the inverted maps are filled from the maps
load_inverted_maps(st) ==
    [st EXCEPT
        !.inverted_sensor_map = invert_map(st.sensormap, @, st.section.sid),
        !.inverted_actuator_map = invert_map(st.actuatormap, @, st.section.sid)]

----------------------------------------------------------------------------
(* save and load: the metadata file and the data file of the section *)

\* .data of a native module or comment instance, as far as merge_data reads it
node_data(st, uid) ==
    LET native == uid \in DOMAIN st.section.native_module_instances
    IN  [uid |-> uid,
         type |-> IF native THEN st.section.native_module_instances[uid].type ELSE "Comment",
         parent_nodespace |->
             nodespace_to_id(st.section.allocated_node_parents[node_from_id(uid)]),
         position |-> MapGet(st.positions, uid, None),
         name |-> MapGet(st.names, uid, None),
         parameters |-> IF native THEN st.section.native_module_instances[uid].parameters
                        ELSE EmptyMap]

\* lines 907-916: the entries of the native module and comment nodes, in the
\* order of their uids (the file is written with sort_keys)
construct_native_modules_and_comments_dict(st) ==
    LET ids == SortedSeq({i \in 1..(st.section.NoN - 1) :
                   \/ st.section.allocated_nodes[i] > MAX_STD_NODETYPE
                   \/ st.section.allocated_nodes[i]
                          = get_numerical_node_type("Comment", st.native_modules)})
    IN  [k \in 1..Len(ids) |-> node_data(st, node_to_id(ids[k], st.section.sid))]

save_metadata_without_names(st, mods, stp) ==
    [current_step |-> stp,
     positions |-> st.positions,
     names |-> EmptyMap,
     actuatormap |-> st.actuatormap,
     sensormap |-> st.sensormap,
     nodes |-> construct_native_modules_and_comments_dict(st),
     modulators |-> mods]

\* save, lines 275-282: self.metadata (with the step counter) and the facade's maps
save_metadata(st, mods, stp) ==
    [current_step |-> stp,
     positions |-> st.positions,
     names |-> st.names,
     actuatormap |-> st.actuatormap,
     sensormap |-> st.sensormap,
     nodes |-> construct_native_modules_and_comments_dict(st),
     modulators |-> mods]

\* json.dumps(metadata, sort_keys=True) and json.load: the keys of the
\* metadata are strings and its values strings, numbers and lists, which the
\* text form gives back as they were
json_dumps(metadata) == [json |-> metadata]

json_load(file) == IF file = None THEN None ELSE file.json

\* section.save: the activation vector, the link matrix and the allocation arrays
section_save(s) ==
    [NoN |-> s.NoN,
     NoE |-> s.NoE,
     allocated_nodes |-> s.allocated_nodes,
     allocated_node_parents |-> s.allocated_node_parents,
     allocated_node_offsets |-> s.allocated_node_offsets,
     allocated_elements_to_nodes |-> s.allocated_elements_to_nodes,
     allocated_nodespaces |-> s.allocated_nodespaces,
     w |-> s.w,
     a |-> s.a]

\* the entry of uid in the metadata's nodes, None when there is none
nodes_data_of(nodes_data, uid) ==
    IF \E k \in 1..Len(nodes_data) : nodes_data[k].uid = uid
    THEN nodes_data[CHOOSE k \in 1..Len(nodes_data) : nodes_data[k].uid = uid]
    ELSE None

\* section.load(datafilename, nodes_data): the arrays of the data file replace
\* those in memory, the native module instances are made from nodes_data; a
\* missing or structurally invalid file leaves the section as it is
section_load(s, data, nodes_data, data_ok) ==
    IF data = None \/ ~data_ok THEN s
    ELSE LET natives == {node_to_id(i, s.sid) : i \in
                            {j \in 1..(data.NoN - 1) :
                                /\ data.allocated_nodes[j] > MAX_STD_NODETYPE
                                /\ nodes_data_of(nodes_data, node_to_id(j, s.sid)) # None}}
         IN  [s EXCEPT
                !.NoN = data.NoN,
                !.NoE = data.NoE,
                !.allocated_nodes = data.allocated_nodes,
                !.allocated_node_parents = data.allocated_node_parents,
                !.allocated_node_offsets = data.allocated_node_offsets,
                !.allocated_elements_to_nodes = data.allocated_elements_to_nodes,
                !.allocated_nodespaces = data.allocated_nodespaces,
                !.w = data.w,
                !.a = data.a,
                !.native_module_instances =
                    [uid \in natives |->
                        [type |-> nodes_data_of(nodes_data, uid).type,
                         parameters |-> nodes_data_of(nodes_data, uid).parameters,
                         state |-> EmptyMap]]]

\* merge_data, lines 396-398: uidmap gets the new uid, get_node builds the proxy
merge_node_created(r, uidmap, uid) ==
    IF ~r.ok THEN [st |-> r.st, ok |-> FALSE, uidmap |-> uidmap]
    ELSE [st |-> get_node(r.st, r.value).st, ok |-> TRUE,
          uidmap |-> MapPut(uidmap, uid, r.value)]

\* node.set_state(key, value) for the keys of state; the state of a native
\* module instance stays with the instance
set_state(st, uid, state) ==
    IF uid \in DOMAIN st.section.native_module_instances
    THEN [st EXCEPT !.section.native_module_instances[uid].state =
             [k \in DOMAIN @ \cup DOMAIN state |-> IF k \in DOMAIN state THEN state[k] ELSE @[k]]]
    ELSE st

\* merge_data, lines 402-405: data.get('state', {}) is set on the new node
merge_node_state(m, data) ==
    IF ~m.ok \/ "state" \notin DOMAIN data THEN m
    ELSE [m EXCEPT !.st = set_state(m.st, m.uidmap[data.uid], data.state)]

\* merge_data, lines 379-408: one node of the data; a node of an unknown type
\* is skipped with a warning, an exception of create_node ends the merge
merge_node(st, uidmap, data, keep_uids) ==
    IF ~keep_uids /\ data.parent_nodespace \notin DOMAIN uidmap
    THEN [st |-> st, ok |-> FALSE, uidmap |-> uidmap]
    ELSE IF ~has_nodetype(data.type, st.native_modules)
    THEN [st |-> st, ok |-> TRUE, uidmap |-> uidmap]
    ELSE merge_node_state(
             merge_node_created(
                 create_node(st, data.type,
                             IF keep_uids THEN data.parent_nodespace
                             ELSE uidmap[data.parent_nodespace],
                             data.position, data.name,
                             IF keep_uids THEN data.uid ELSE None,
                             data.parameters),
                 uidmap, data.uid),
             data)

\* merge_data, line 378: the loop over the nodes of the data
RECURSIVE merge_nodes(_, _, _)
merge_nodes(merged, nodes, keep_uids) ==
    IF nodes = <<>> \/ ~merged.ok THEN merged
    ELSE merge_nodes(merge_node(merged.st, merged.uidmap, Head(nodes), keep_uids),
                     Tail(nodes), keep_uids)

\* merge_data, lines 410-419: one link of the data; uidmap is indexed with the
\* uids the link names
merge_link(st, uidmap, data) ==
    IF data.source_node_uid \notin DOMAIN uidmap \/ data.target_node_uid \notin DOMAIN uidmap
    THEN Raise(st)
    ELSE create_link(st, uidmap[data.source_node_uid], data.source_gate_name,
                     uidmap[data.target_node_uid], data.target_slot_name, data.weight)

RECURSIVE merge_links(_, _, _)
merge_links(r, uidmap, links) ==
    IF links = <<>> \/ ~r.ok THEN r
    ELSE merge_links(merge_link(r.st, uidmap, Head(links)), uidmap, Tail(links))

\* merge_data, lines 410-419, after the nodes: nothing more after an exception
merge_data_links(merged, links) ==
    IF ~merged.ok THEN Raise(merged.st)
    ELSE merge_links(Ok(merged.st, None), merged.uidmap, links)

\* the entry of nodespace_uid in the nodespaces of the data
nodespace_entry(nodespaces, nodespace_uid) ==
    IF \E k \in 1..Len(nodespaces) : nodespaces[k].uid = nodespace_uid
    THEN nodespaces[CHOOSE k \in 1..Len(nodespaces) : nodespaces[k].uid = nodespace_uid]
    ELSE None

\* merge_nodespace_data, lines 458 and 470: uidmap and the order of creation
merge_nodespace_created(r, m, nodespace_uid, keep_uids) ==
    IF ~r.ok THEN [m EXCEPT !.st = r.st, !.ok = FALSE]
    ELSE [st |-> r.st, ok |-> TRUE,
          uidmap |-> IF keep_uids THEN m.uidmap ELSE MapPut(m.uidmap, nodespace_uid, r.value),
          created |-> Append(m.created, r.value)]

\* merge_nodespace_data, lines 452-457 and 464-469: data[nodespace_uid] and
\* uidmap[...] raise KeyError for a key that is not there
merge_nodespace_create(m, nodespace_uid, nodespaces, keep_uids) ==
    IF ~m.ok THEN m
    ELSE IF nodespace_entry(nodespaces, nodespace_uid) = None THEN [m EXCEPT !.ok = FALSE]
    ELSE IF ~keep_uids
            /\ nodespace_entry(nodespaces, nodespace_uid).parent_nodespace \notin DOMAIN m.uidmap
    THEN [m EXCEPT !.ok = FALSE]
    ELSE merge_nodespace_created(
             create_nodespace(m.st,
                              IF keep_uids
                              THEN nodespace_entry(nodespaces, nodespace_uid).parent_nodespace
                              ELSE m.uidmap[nodespace_entry(nodespaces, nodespace_uid).parent_nodespace],
                              nodespace_entry(nodespaces, nodespace_uid).position,
                              nodespace_entry(nodespaces, nodespace_uid).name,
                              IF keep_uids THEN nodespace_uid ELSE None),
             m, nodespace_uid, keep_uids)

\* merge_nodespace_data, lines 436-470; depth is what is left of the recursion limit
RECURSIVE merge_nodespace_data(_, _, _, _, _)
merge_nodespace_data(m, nodespace_uid, nodespaces, keep_uids, depth) ==
    IF ~m.ok THEN m
    ELSE IF depth = 0 THEN [m EXCEPT !.ok = FALSE]
    ELSE IF keep_uids
    THEN IF m.st.section.allocated_nodespaces[nodespace_from_id(nodespace_uid)] # 0 THEN m
         ELSE IF nodespace_from_id(nodespace_uid) = 1
         THEN merge_nodespace_create(m, nodespace_uid, nodespaces, keep_uids)
         ELSE IF nodespace_entry(nodespaces, nodespace_uid) = None THEN [m EXCEPT !.ok = FALSE]
         ELSE IF nodespace_entry(nodespaces, nodespace_uid).parent_nodespace = None
         THEN [m EXCEPT !.ok = FALSE]
         ELSE IF m.st.section.allocated_nodespaces[
                     nodespace_from_id(nodespace_entry(nodespaces, nodespace_uid).parent_nodespace)] = 0
         THEN merge_nodespace_create(
                  merge_nodespace_data(
                      m,
                      nodespace_to_id(nodespace_from_id(
                          nodespace_entry(nodespaces, nodespace_uid).parent_nodespace)),
                      nodespaces, keep_uids, depth - 1),
                  nodespace_uid, nodespaces, keep_uids)
         ELSE merge_nodespace_create(m, nodespace_uid, nodespaces, keep_uids)
    ELSE IF nodespace_uid \in DOMAIN m.uidmap THEN m
         ELSE IF nodespace_entry(nodespaces, nodespace_uid) = None THEN [m EXCEPT !.ok = FALSE]
         ELSE IF nodespace_entry(nodespaces, nodespace_uid).parent_nodespace \notin DOMAIN m.uidmap
         THEN merge_nodespace_create(
                  merge_nodespace_data(
                      m, nodespace_entry(nodespaces, nodespace_uid).parent_nodespace,
                      nodespaces, keep_uids, depth - 1),
                  nodespace_uid, nodespaces, keep_uids)
         ELSE merge_nodespace_create(m, nodespace_uid, nodespaces, keep_uids)

\* merge_data, lines 374-376: the loop over the nodespaces of the data, in the
\* order the set hands them out
RECURSIVE merge_nodespaces(_, _, _, _)
merge_nodespaces(m, todo, nodespaces, keep_uids) ==
    IF todo = <<>> \/ ~m.ok THEN m
    ELSE merge_nodespaces(
             merge_nodespace_data(m, Head(todo).uid, nodespaces, keep_uids, Len(nodespaces) + 2),
             Tail(todo), nodespaces, keep_uids)

\* nodenet_data.get('nodespaces', {})
nodespaces_of(nodenet_data) ==
    IF "nodespaces" \in DOMAIN nodenet_data THEN nodenet_data.nodespaces ELSE <<>>

\* merge_data, lines 366-376: uidmap with the root, then the nodespaces
merge_data_nodespaces(st, nodenet_data, keep_uids) ==
    merge_nodespaces([st |-> st, ok |-> TRUE,
                      uidmap |-> MapPut(MapPut(EmptyMap, <<"R", "o", "o", "t">>, RootUid),
                                        RootUid, RootUid),
                      created |-> <<>>],
                     nodespaces_of(nodenet_data), nodespaces_of(nodenet_data), keep_uids)

\* merge_data(nodenet_data, keep_uids) for data without monitors
merge_data(st, nodenet_data, keep_uids) ==
    merge_data_links(
        merge_nodes(merge_data_nodespaces(st, nodenet_data, keep_uids),
                    nodenet_data.nodes, keep_uids),
        nodenet_data.links)

\* initialize_nodenet, lines 347-361: the modulators of the metadata are put
\* over the ones the nodenet has, then the maps and the step counter are taken
initialize_nodenet_merged(merged, mods, stp, initfrom) ==
    IF ~merged.ok
    THEN [st |-> merged.st, ok |-> FALSE, modulators |-> dict_update(mods, initfrom.modulators),
          step |-> stp]
    ELSE [st |-> [merged.st EXCEPT !.names = initfrom.names,
                                   !.positions = initfrom.positions,
                                   !.actuatormap = initfrom.actuatormap,
                                   !.sensormap = initfrom.sensormap],
          ok |-> TRUE,
          modulators |-> dict_update(mods, initfrom.modulators),
          step |-> initfrom.current_step]

\* initialize_nodenet(initfrom), lines 345-361; initfrom is None when there was
\* no metadata file
initialize_nodenet(st, mods, stp, initfrom) ==
    IF initfrom = None THEN [st |-> st, ok |-> TRUE, modulators |-> mods, step |-> stp]
    ELSE initialize_nodenet_merged(
             merge_data(st, [nodes |-> initfrom.nodes, links |-> <<>>], TRUE), mods, stp,
             initfrom)

\* load, lines 298-308: the metadata file cannot be opened or is no JSON; the
\* nodenet has not been touched when the handler runs
load_unreadable(st) == st

\* lines 303-308: the handlers call warnings.warn(message, filename); the second
\* positional argument is the category, a str is no Warning subclass, and
\* warnings.warn raises TypeError before `return False` is reached
warnings_warn(message, category) ==
    IF category \in {"UserWarning", "None"} THEN "warned" ELSE "TypeError"

load_unreadable_result ==
    IF warnings_warn("Could not read nodenet metadata from file %s", "filename") = "warned"
    THEN "False" ELSE "TypeError"

\* load, lines 310-320: initialize_nodenet, then section.load with the nodes of
\* the metadata; the result of section.load is not looked at
load_sections(st, initfrom, data, data_ok) ==
    [st EXCEPT !.section =
        section_load(@, data, IF initfrom = None THEN <<>> ELSE initfrom.nodes, data_ok)]

\* the capacities of the arrays in the data file
saved_size(data) ==
    IF data = None THEN [NoN |-> 0, NoE |-> 0] ELSE [NoN |-> data.NoN, NoE |-> data.NoE]

\* load, line 295: with self.netlock
LoadAcquire(t) ==
    /\ pc[t] = "load_enter"
    /\ with_netlock_enters(netlock)
    /\ netlock' = t
    /\ pc' = [pc EXCEPT ![t] = "load_read"]
    /\ oplog' = Append(oplog, Event(t, "load", "acquire"))
    /\ UNCHANGED <<facadevars, envvars, modulators, stepoperators, step, opidx, last>>

\* load, lines 298-308: the metadata file exists but cannot be read
LoadFail(t) ==
    /\ pc[t] = "load_read"
    /\ Apply(load_unreadable(NetState))
    /\ netlock' = "free"
    /\ pc' = [pc EXCEPT ![t] = "idle"]
    /\ oplog' = Append(oplog, Event(t, "load", "release"))
    /\ last' = [op |-> "load", ok |-> FALSE, thread |-> t, read |-> FALSE,
                result |-> load_unreadable_result]
    /\ UNCHANGED <<envvars, modulators, stepoperators, step, opidx>>

\* load, lines 296-319: the metadata that was saved, if any, initializes the
\* nodenet, then the section loads its data file; data_ok says whether that
\* file has the arrays and shapes the section expects.  An exception of
\* merge_data leaves the with block.
LoadInitialize(t, data_ok) ==
    /\ pc[t] = "load_read"
    /\ \E r \in {initialize_nodenet(NetState, modulators, step, json_load(disk.metadata))} :
        /\ r.st.section.NoN <= Max(Max(MaxNoN, section.NoN), saved_size(disk.data).NoN)
        /\ r.st.section.NoE <= Max(Max(MaxNoE, section.NoE), saved_size(disk.data).NoE)
        /\ Apply(IF r.ok
                 THEN load_sections(r.st, json_load(disk.metadata), disk.data, data_ok)
                 ELSE r.st)
        /\ modulators' = r.modulators
        /\ step' = r.step
        /\ netlock' = IF r.ok THEN netlock ELSE "free"
        /\ pc' = [pc EXCEPT ![t] = IF r.ok THEN "load_reload" ELSE "idle"]
        /\ oplog' = Append(oplog,
                       Event(t, "load",
                             IF ~r.ok THEN "release"
                             ELSE IF disk.data # None /\ ~data_ok THEN "section_failed"
                             ELSE "initialize"))
        /\ last' = IF r.ok THEN last
                   ELSE [op |-> "load", ok |-> FALSE, thread |-> t, read |-> TRUE,
                         result |-> "exception"]
        /\ UNCHANGED <<envvars, stepoperators, opidx>>

\* load, lines 321-337: reload_native_modules, the inverted maps, the step
\* operators; an exception of the reload leaves the with block as well
LoadFinish(t, ctor_ok) ==
    /\ pc[t] = "load_reload"
    /\ \E r \in {reload_native_modules(NetState, native_modules, ctor_ok)} :
        /\ Apply(IF r.ok THEN load_inverted_maps(r.st) ELSE r.st)
        /\ stepoperators' = IF r.ok THEN initialize_stepoperators ELSE stepoperators
        /\ netlock' = "free"
        /\ pc' = [pc EXCEPT ![t] = "idle"]
        /\ oplog' = Append(oplog, Event(t, "load", "release"))
        /\ last' = [op |-> "load", ok |-> r.ok, thread |-> t, read |-> TRUE,
                    result |-> IF r.ok THEN "True" ELSE "exception"]
        /\ UNCHANGED <<envvars, modulators, step, opidx>>

\* a caller of the nodenet takes the net lock to read
ReadAcquire(t) ==
    /\ pc[t] = "read_enter"
    /\ with_netlock_enters(netlock)
    /\ netlock' = t
    /\ pc' = [pc EXCEPT ![t] = "reading"]
    /\ oplog' = Append(oplog, Event(t, "read", "acquire"))
    /\ UNCHANGED <<facadevars, envvars, modulators, stepoperators, step, opidx, last>>

ReadRelease(t) ==
    /\ pc[t] = "reading"
    /\ netlock' = "free"
    /\ pc' = [pc EXCEPT ![t] = "idle"]
    /\ oplog' = Append(oplog, Event(t, "read", "release"))
    /\ UNCHANGED <<facadevars, envvars, modulators, stepoperators, step, opidx, last>>

\* save, lines 274-282: the metadata file is written; save takes no lock
SaveMetadata(t) ==
    /\ pc[t] = "save_enter"
    /\ disk' = [disk EXCEPT !.metadata = json_dumps(save_metadata(NetState, modulators, step))]
    /\ pc' = [pc EXCEPT ![t] = "save_data"]
    /\ oplog' = Append(oplog, Event(t, "save", "metadata"))
    /\ UNCHANGED <<facadevars, announced, viewcache, world, modulators, stepoperators, step, netlock, opidx,
                   last>>

\* save, lines 284-288: the section writes its data file
SaveSection(t) ==
    /\ pc[t] = "save_data"
    /\ disk' = [disk EXCEPT !.data = section_save(section)]
    /\ pc' = [pc EXCEPT ![t] = "idle"]
    /\ oplog' = Append(oplog, Event(t, "save", "data"))
    /\ last' = [op |-> "save", ok |-> TRUE, thread |-> t]
    /\ UNCHANGED <<facadevars, announced, viewcache, world, modulators, stepoperators, step, netlock, opidx>>

\* cap on the number of restarts of a behaviour
MaxRestarts == 1

\* the process ends and a nodenet with the same uid is constructed again,
\* lines 152-261, with the catalog nm; the files stay, and the nodenet as it
\* was is kept aside for comparisons
Restart(nm) ==
    /\ \A t \in Threads : pc[t] = "idle"
    /\ Cardinality({i \in 1..Len(oplog) : oplog[i].phase = "restart"}) < MaxRestarts
    /\ Apply([NetState EXCEPT
                !.section = InitSection,
                !.positions = EmptyMap,
                !.names = MapPut(EmptyMap, RootUid, <<"R", "o", "o", "t">>),
                !.sensormap = EmptyMap,
                !.inverted_sensor_map = EmptyMap,
                !.actuatormap = EmptyMap,
                !.inverted_actuator_map = EmptyMap,
                !.proxycache = {},
                !.native_modules = nm])
    /\ modulators' = [por_ret_decay |-> 0]
    /\ stepoperators' = initialize_stepoperators
    /\ step' = 0
    /\ announced' = NetState @@ [modulators |-> modulators, step |-> step]
    /\ oplog' = Append(oplog, Event("process", "nodenet", "restart"))
    /\ last' = [op |-> "restart", ok |-> TRUE]
    /\ UNCHANGED <<disk, viewcache, world, netlock, pc, opidx>>

MergeData(nodenet_data, keep_uids) ==
    \E r \in {merge_data(NetState, nodenet_data, keep_uids)} :
        /\ r.st.section.NoN <= Max(MaxNoN, section.NoN)
        /\ r.st.section.NoE <= Max(MaxNoE, section.NoE)
        /\ Apply(r.st)
        /\ last' = [op |-> "merge_data", ok |-> r.ok, data |-> nodenet_data,
                    keep_uids |-> keep_uids,
                    fresh |-> \A uid \in NodeUids : ~is_node(NetState, uid),
                    created |-> merge_data_nodespaces(NetState, nodenet_data, keep_uids).created,
                    uidmap |-> merge_data_nodespaces(NetState, nodenet_data, keep_uids).uidmap]
        /\ UNCHANGED <<stepvars, envvars>>

\* a position and a name, given together or not at all
SupplementInputs == {<<None, None>>, <<<<1, 1>>, <<"A">>>>}

\* nodes, links, groups, nodespaces and their deletion
Next ==
    \/ \E nodetype \in {"Register", "Sensor"}, nodespace_uid \in {None} \cup NodespaceUids :
          CreateNode(nodetype, nodespace_uid, None, None, None, EmptyMap)
    \/ \E uid \in NodeUids : DeleteNode(uid)
    \/ \E uid \in NodespaceUids : CreateNodespace(None, None, None, uid)
    \/ \E nodespace_uid \in {None, RootUid} \cup NodespaceUids : DeleteNodespace(nodespace_uid)
    \/ \E source \in NodeUids, target \in NodeUids, weight \in WeightInputs :
          SetLinkWeight(source, "gen", target, "gen", weight)
    \/ \E node_uids \in SUBSET NodeUids, group_name \in GroupNames :
          GroupNodes(None, node_uids, group_name)
    \/ \E group_name \in GroupNames : UngroupNodes(None, group_name)
    \/ \E group_from \in GroupNames, group_to \in GroupNames, weight \in {0, Scale} :
          SetLinkWeights(None, group_from, None, group_to, weight)

Spec == Init /\ [][Next]_vars

\* nodes with their names, positions, sensor / actuator associations and proxies
NextNodes ==
    \/ \E nodetype \in {"Sensor", "Actor"}, supp \in SupplementInputs,
          uid \in {None} \cup NodeUids :
          \E parameters \in ParameterInputs(nodetype) :
              CreateNode(nodetype, None, supp[1], supp[2], uid, parameters)
    \/ \E uid \in NodeUids : DeleteNode(uid)
    \/ \E uid \in NodeUids : GetNode(uid)
    \/ \E source \in NodeUids, target \in NodeUids, weight \in {0, Scale} :
          SetLinkWeight(source, "gen", target, "gen", weight)

SpecNodes == Init /\ [][NextNodes]_vars

\* allocation: element blocks of several sizes, index reuse, growth, catalog reloads
NextArena ==
    \/ \E nodetype \in {"Register", "NM"}, uid \in {None} \cup NodeUids :
          CreateNode(nodetype, None, None, None, uid, EmptyMap)
    \/ \E uid \in NodeUids : DeleteNode(uid)
    \/ \E source \in NodeUids, target \in NodeUids :
          SetLinkWeight(source, "gen", target, "gen", Scale)
    \/ \E nm \in NativeCatalogs, ctor_ok \in BOOLEAN : ReloadNativeModules(nm, ctor_ok)

SpecArena == Init /\ [][NextArena]_vars

\* calls whose handles carry the tags of two different partitions
NextSections ==
    \/ CreateNode("Register", None, None, None, None, EmptyMap)
    \/ \E uid \in NodeUids : DeleteNode(uid)
    \/ \E uid \in NodeUids : GetNode(uid)
    \/ \E source \in NodeUids \cup ForeignUids, target \in NodeUids \cup ForeignUids,
          weight \in WeightInputs :
          SetLinkWeight(source, "gen", target, "gen", weight)
    \/ \E source \in NodeUids \cup ForeignUids, target \in NodeUids \cup ForeignUids :
          CreateLink(source, "gen", target, "gen", Scale)
    \/ \E source \in NodeUids \cup ForeignUids, target \in NodeUids \cup ForeignUids :
          DeleteLink(source, "gen", target, "gen")

SpecSections == Init /\ [][NextSections]_vars

\* no thread has called step, load or read yet
Quiet == oplog = <<>> /\ \A t \in Threads : pc[t] = "idle"

\* a net is built, then two threads call step, load and read
NextStep ==
    \/ Quiet /\ CreateNode("Register", None, None, None, None, EmptyMap)
    \/ Quiet /\ \E source \in NodeUids, target \in NodeUids :
                   SetLinkWeight(source, "gen", target, "gen", Scale)
    \/ Quiet /\ \E node_uids \in SUBSET NodeUids : GroupNodes(None, node_uids, "g")
    \/ Quiet /\ SetActivations(None, "g", Scale)
    \/ \E t \in Threads, what \in {"step_enter", "load_enter", "read_enter"} : Call(t, what)
    \/ \E t \in Threads : StepAcquire(t)
    \/ \E t \in Threads : OperatorBegin(t)
    \/ \E t \in Threads : OperatorEnd(t)
    \/ \E t \in Threads : StepFinish(t)
    \/ \E t \in Threads : LoadAcquire(t)
    \/ \E t \in Threads : LoadFail(t)
    \/ \E t \in Threads : LoadInitialize(t, TRUE)
    \/ \E t \in Threads, ctor_ok \in BOOLEAN : LoadFinish(t, ctor_ok)
    \/ \E t \in Threads : ReadAcquire(t)
    \/ \E t \in Threads : ReadRelease(t)

SpecStep == Init /\ [][NextStep]_vars

\* one thread steps and loads, a second one saves, and the structure is
\* changed by calls that come from outside both
NextLock ==
    \/ CreateNode("Register", None, None, None, None, EmptyMap)
    \/ \E uid \in NodeUids : DeleteNode(uid)
    \/ \E uid \in NodespaceUids : CreateNodespace(None, None, None, uid)
    \/ \E uid \in NodespaceUids : DeleteNodespace(uid)
    \/ AnnounceNodes(None, 1, 1)
    \/ \E what \in {"step_enter", "load_enter"} : Call("t1", what)
    \/ Call("t2", "save_enter")
    \/ \E t \in Threads : StepAcquire(t)
    \/ \E t \in Threads : OperatorBegin(t)
    \/ \E t \in Threads : OperatorEnd(t)
    \/ \E t \in Threads : StepFinish(t)
    \/ \E t \in Threads : LoadAcquire(t)
    \/ \E t \in Threads : LoadFail(t)
    \/ \E t \in Threads : LoadInitialize(t, TRUE)
    \/ \E t \in Threads : LoadFinish(t, TRUE)
    \/ \E t \in Threads : SaveMetadata(t)
    \/ \E t \in Threads : SaveSection(t)

SpecLock == Init /\ [][NextLock]_vars

----------------------------------------------------------------------------
(* Properties *)

\* every linkdata record the two passes of construct_links_dict produce
enumerated_links(st) ==
    UNION {links_by_gate_column(st.section, i, st.native_modules)
               \cup links_by_slot_row(st.section, i, st.native_modules) :
           i \in {n \in NodeIndices(st.section) : st.section.allocated_nodes[n] # 0}}

\* C1: after a successful set_link_weight(a, g, b, s, w) the enumerated links
\* hold exactly one entry for (a, g, s, b), and its weight is w, when w # 0, and
\* hold no entry for (a, g, s, b) when w = 0; a second call on the same
\* endpoints therefore replaces the weight.
C1_SetLinkWeightEnumerated ==
    (last.op = "set_link_weight" /\ last.ok) =>
        LET key == <<last.source, last.gate, last.slot, last.target>>
            d   == construct_links_dict(NetState)
        IN  IF last.weight # 0
            THEN /\ key \in DOMAIN d
                 /\ d[key].weight = last.weight
                 /\ Cardinality({l \in enumerated_links(NetState) : l.uid = key}) = 1
            ELSE /\ key \notin DOMAIN d
                 /\ {l \in enumerated_links(NetState) : l.uid = key} = {}

\* a set_link_weight has replaced the weight of an existing link between two
\* different nodes
C1_Witness ==
    /\ last.op = "set_link_weight" /\ last.ok /\ last.replaces
    /\ last.source # last.target

\* C2: every nonzero cell of the link matrix has its row element and its
\* column element allocated to a live node.
C2_LinksOnlyBetweenLiveNodes ==
    \A c \in DOMAIN section.w :
        section.w[c] # 0 =>
            /\ section_is_node(section, section.allocated_elements_to_nodes[c[1]])
            /\ section_is_node(section, section.allocated_elements_to_nodes[c[2]])

\* C3: a create_node that follows a successful delete_node(A), asking for no uid
\* or for A's uid, succeeds; and a node that create_node has just created has no
\* link in the enumeration, has a name and a position only if the call gave
\* them, is associated with a data source / data target only if the call gave
\* one, and has no cached proxy.
NewNodeClean ==
    LET u      == last.uid
        sensor == last.nodetype = "Sensor" /\ "datasource" \in DOMAIN last.parameters
        actor  == last.nodetype = "Actor" /\ "datatarget" \in DOMAIN last.parameters
    IN  /\ links_of(NetState, u) = {}
        /\ MapGet(names, u, None) = last.name
        /\ MapGet(positions, u, None) = last.position
        /\ MapGet(inverted_sensor_map, u, None)
               = (IF sensor THEN last.parameters.datasource ELSE None)
        /\ MapGet(inverted_actuator_map, u, None)
               = (IF actor THEN last.parameters.datatarget ELSE None)
        /\ \A d \in DOMAIN sensormap :
               SeqContains(sensormap[d], node_from_id(u))
                   => (sensor /\ d = last.parameters.datasource)
        /\ \A d \in DOMAIN actuatormap :
               SeqContains(actuatormap[d], node_from_id(u))
                   => (actor /\ d = last.parameters.datatarget)
        /\ u \notin proxycache

C3_DeletedNodeLeavesNothing ==
    [][ (last'.op = "create_node") =>
            /\ (last.op = "delete_node" /\ last.ok /\ last'.requested \in {None, last.uid})
                   => last'.ok
            /\ last'.ok => NewNodeClean' ]_vars

\* a plain create_node has taken the uid of a node deleted in the step before,
\* which had links, a name, a position, an association and a cached proxy
C3_Witness ==
    /\ last.op = "create_node" /\ last.ok /\ last.reuses
    /\ last.name = None /\ last.parameters = EmptyMap

\* C4: create_node immediately followed by delete_node of the uid it returned
\* succeeds and leaves the live nodes, the occupied elements and the enumerated
\* links as they were before the create_node (capacity may differ).
C4_CreateThenDeleteRestores ==
    [][ (last.op = "create_node" /\ last.ok /\ last'.op = "delete_node"
            /\ last'.uid = last.uid) =>
            /\ last'.ok
            /\ Occupancy(NetState)' = last.before ]_vars

\* a create_node that grew the arenas next to existing nodes and links has been undone
C4_Witness ==
    /\ last.op = "delete_node" /\ last.ok /\ last.undoes_create
    /\ last.before.nodes # {} /\ DOMAIN last.before.links # {}
    /\ section.NoE > InitialNumberOfNodes * ElementsPerNodeAssumption

\* C5: a set_link_weight, create_link or delete_link whose source and target
\* handles carry different partition tags fails and changes neither the link matrix, nor the
\* activations, nor the proxy cache.
C5_CrossPartitionLinkRefused ==
    [][ (last'.op \in {"set_link_weight", "create_link", "delete_link"}
            /\ sid_of_uid(last'.source) # sid_of_uid(last'.target)) =>
            /\ ~last'.ok
            /\ section'.w = section.w
            /\ section'.a = section.a
            /\ proxycache' = proxycache ]_vars

\* the elements of a live node: a block as long as its type has gates or slots
ElementBlock(s, i, nm) ==
    s.allocated_node_offsets[i]
        .. (s.allocated_node_offsets[i] + get_elements_per_type(s.allocated_nodes[i], nm) - 1)

\* C6: the element blocks of two distinct live nodes are disjoint, and every
\* element of a live node's block is inside the arena and allocated to that node.
C6_ElementBlocksDisjoint ==
    LET live == {i \in NodeIndices(section) : section.allocated_nodes[i] # 0}
    IN  /\ \A i \in live : \A j \in live \ {i} :
               ElementBlock(section, i, native_modules)
                   \cap ElementBlock(section, j, native_modules) = {}
        /\ \A i \in live : \A e \in ElementBlock(section, i, native_modules) :
               /\ e \in ElementIndices(section)
               /\ section.allocated_elements_to_nodes[e] = i

\* a reload has recreated a native module node with a block of two elements
\* while another node is live
C6_Witness ==
    /\ last.op = "reload_native_modules" /\ last.ok /\ last.recreated
    /\ \E i \in NodeIndices(section) : \E j \in NodeIndices(section) \ {i} :
           /\ section.allocated_nodes[i] # 0 /\ section.allocated_nodes[j] # 0
           /\ Cardinality(ElementBlock(section, i, native_modules)) = 2

\* C7: create_node with a requested uid that names a live node fails, and
\* changes neither the arenas (types, parents, offsets, links) nor names,
\* positions, sensormap, actuatormap and their inverted maps.
C7_CreateOnLiveUidRefused ==
    [][ (last'.op = "create_node" /\ last'.requested # None
            /\ is_node(NetState, last'.requested)) =>
            /\ ~last'.ok
            /\ UNCHANGED <<section, names, positions, sensormap, inverted_sensor_map,
                           actuatormap, inverted_actuator_map>> ]_vars

\* a create_node was refused for a live node that has a name, a position, a
\* link and an association
C7_Witness ==
    /\ last.op = "create_node" /\ ~last.ok /\ last.requested # None
    /\ is_node(NetState, last.requested)
    /\ last.requested \in DOMAIN names /\ last.requested \in DOMAIN positions
    /\ links_of(NetState, last.requested) # {}
    /\ last.requested \in DOMAIN inverted_sensor_map \cup DOMAIN inverted_actuator_map

\* get_nodespace_uids and is_nodespace report the root
RootReported == is_nodespace(NetState, RootUid) /\ RootUid \in get_nodespace_uids(NetState)

\* C8 as stated: delete_nodespace of the root uid or of None raises and changes
\* nothing, and the root is always reported as a nodespace.
C8_RootDeleteChangesNothing ==
    [][ /\ RootReported /\ RootReported'
        /\ (last'.op = "delete_nodespace" /\ last'.uid \in {None, RootUid}) =>
              /\ ~last'.ok
              /\ UNCHANGED <<section, names, positions, sensormap, inverted_sensor_map,
                             actuatormap, inverted_actuator_map, proxycache,
                             native_modules>> ]_vars

\* C8: delete_nodespace of the root uid or of None raises and changes nothing
\* but the proxy cache, which may gain the proxy of the root; the root is always
\* reported as a nodespace.
C8_RootDeleteChangesOnlyProxyCache ==
    [][ /\ RootReported /\ RootReported'
        /\ (last'.op = "delete_nodespace" /\ last'.uid \in {None, RootUid}) =>
              /\ ~last'.ok
              /\ UNCHANGED <<section, names, positions, sensormap, inverted_sensor_map,
                             actuatormap, inverted_actuator_map, native_modules>>
              /\ proxycache' \in {proxycache, proxycache \cup {RootUid}}
              /\ (last'.uid = None => proxycache' = proxycache) ]_vars

\* the deletion of the root was refused while it held nodes, a link and a
\* child nodespace
C8_Witness ==
    /\ last.op = "delete_nodespace" /\ ~last.ok /\ last.uid = RootUid
    /\ NumLinks(section) > 0
    /\ \E i \in 2..MaxNodespaceId : section_is_nodespace(section, i)

\* the operators in ascending priority: propagate, calculate, decay, modulators
PriorityOrder == <<"Propagate", "Calculate", "PORRETDecay", "Modulators">>

\* the k-th event after a step took the lock
ExpectedEvent(t, k) ==
    IF k > 2 * Len(PriorityOrder) THEN Event(t, "step", "release")
    ELSE Event(t, PriorityOrder[(k + 1) \div 2], IF k % 2 = 1 THEN "begin" ELSE "end")

\* C9: within a step the operators run in ascending priority order, propagate,
\* calculate, decay, modulators, each exactly once, and each begins only after
\* the one before it has ended.
C9_OperatorsInPriorityOrder ==
    \A i \in 1..Len(oplog) :
        (oplog[i].op = "step" /\ oplog[i].phase = "acquire") =>
            \A k \in 1..(2 * Len(PriorityOrder) + 1) :
                (i + k <= Len(oplog)) => oplog[i + k] = ExpectedEvent(oplog[i].thread, k)

\* a step has run all its operators and changed the activations
C9_Witness ==
    /\ last.op = "step" /\ step = 1 /\ \A t \in Threads : pc[t] = "idle"
    /\ \E e \in ElementIndices(section) : section.a[e] # 0
    /\ NumLinks(section) > 0

InCriticalSection(t) == pc[t] \in {"step_run", "op_run", "load_read", "load_reload", "reading"}

\* C10: steps, loads and readers that hold the net lock never overlap: at most
\* one thread is inside a with-netlock block, the events of two threads
\* interleave only where one released the lock and the other took it, and
\* while a reader holds the lock every step that has begun has applied all its
\* operators.
C10_StepAndLoadExclusive ==
    /\ \A t \in Threads : \A u \in Threads \ {t} :
           ~(InCriticalSection(t) /\ InCriticalSection(u))
    /\ \A t \in Threads : InCriticalSection(t) => netlock = t
    /\ \A i \in 1..(Len(oplog) - 1) :
           oplog[i].thread # oplog[i + 1].thread =>
               (oplog[i].phase = "release" /\ oplog[i + 1].phase = "acquire")
    /\ (\E t \in Threads : pc[t] = "reading") =>
           Cardinality({i \in 1..Len(oplog) : oplog[i].phase = "end"})
               = step * Len(stepoperators)

\* a load waits for the lock while a step of the other thread has applied
\* the first of its operators, which changed the activations
C10_Witness ==
    \E t \in Threads : \E u \in Threads \ {t} :
        /\ pc[t] = "step_run" /\ opidx[t] = 2
        /\ pc[u] = "load_enter"
        /\ \E e \in ElementIndices(section) : section.a[e] # 0


\* the calls that allocate or free nodes, nodespaces or capacity
AllocationCalls ==
    {"create_node", "delete_node", "create_nodespace", "delete_nodespace", "announce_nodes"}

\* C11: create_node, delete_node, create_nodespace, delete_nodespace and
\* announce_nodes take effect only while no thread is inside the with-netlock
\* block of a step or of a load.
C11_AllocationSerialized ==
    [][ (last'.op \in AllocationCalls /\ last' # last /\ pc' = pc /\ oplog' = oplog) =>
            \A t \in Threads : ~InCriticalSection(t) ]_vars


\* C12: the two files of a save are written only while no step is in flight,
\* and the data file is written at the step count its metadata records: both
\* describe the state after one and the same whole number of steps.
C12_SaveSeesWholeSteps ==
    [][ \A t \in Threads :
            (pc[t] \in {"save_enter", "save_data"} /\ pc'[t] # pc[t]) =>
                /\ \A u \in Threads : pc[u] \notin {"step_run", "op_run"}
                /\ pc[t] = "save_data" => json_load(disk.metadata).current_step = step ]_vars

\* the share of their weight the por / ret links lose in a step
DecayInputs == {0, Scale \div 2}

\* one thread: a small net is built, then it is stepped
NextPropagate ==
    \/ Quiet /\ \E nodetype \in {"Register", "Sensor", "Pipe"} :
                   CreateNode(nodetype, None, None, None, None, EmptyMap)
    \/ Quiet /\ \E source \in NodeUids, target \in NodeUids, gate \in {"gen", "por"},
                    slot \in {"gen", "por"}, weight \in {Scale \div 2, Scale} :
                   SetLinkWeight(source, gate, target, slot, weight)
    \/ Quiet /\ \E node_uids \in SUBSET NodeUids : GroupNodes(None, node_uids, "g")
    \/ Quiet /\ SetActivations(None, "g", Scale)
    \/ Quiet /\ \E value \in DecayInputs : SetModulator("por_ret_decay", value)
    \/ Call("t1", "step_enter")
    \/ StepAcquire("t1")
    \/ OperatorBegin("t1")
    \/ OperatorEnd("t1")
    \/ StepFinish("t1")

SpecPropagate == Init /\ [][NextPropagate]_vars

\* the name of the type of the live node uid
type_name(st, uid) ==
    get_string_node_type(st.section.allocated_nodes[node_from_id(uid)], st.native_modules)

\* node A has a single gate gen, node B a slot gen, the only link of the net
\* goes from A.gen to B.gen with weight 0.5, and A's gen carries 1.0
PropagationScenario(st, A, B) ==
    LET s  == st.section
        eA == s.allocated_node_offsets[node_from_id(A)]
        eB == s.allocated_node_offsets[node_from_id(B)]
    IN  /\ A # B /\ is_node(st, A) /\ is_node(st, B)
        /\ type_name(st, A) \in {"Register", "Sensor"}
        /\ type_name(st, B) = "Register"
        /\ \A c \in DOMAIN s.w : s.w[c] = (IF c = <<eB, eA>> THEN Scale \div 2 ELSE 0)
        /\ s.a[eA] = Scale

\* the activation of the gen element of node uid
gen_activation(s, uid) == s.a[s.allocated_node_offsets[node_from_id(uid)]]

\* C13: with A's activation 1.0 and the link A.gen -> B.gen of weight 0.5 as
\* the only link, B's activation is 0.5 after exactly one step.
C13_OneStepPropagates ==
    [][ (pc["t1"] = "step_run" /\ pc'["t1"] = "idle" /\ last.op = "step_acquire") =>
            \A A \in NodeUids, B \in NodeUids :
                PropagationScenario(last.st, A, B) =>
                    gen_activation(section', B) = Scale \div 2 ]_vars

\* the step of the scenario has ended and B carries 0.5
C13_Witness ==
    /\ last.op = "step" /\ step = 1 /\ pc["t1"] = "idle"
    /\ \E A \in NodeUids, B \in NodeUids :
           /\ A # B /\ is_node(NetState, A) /\ is_node(NetState, B)
           /\ type_name(NetState, A) = "Sensor"
           /\ <<A, "gen", "gen", B>> \in DOMAIN construct_links_dict(NetState)
           /\ construct_links_dict(NetState)[<<A, "gen", "gen", B>>].weight = Scale \div 2
           /\ NumLinks(section) = 1
           /\ gen_activation(section, B) = Scale \div 2
           /\ gen_activation(section, A) = 0

\* the pipeline with the decay operator taken out
without_decay(ops) == SelectSeq(ops, LAMBDA op : op # "PORRETDecay")

\* C14: a step leaves the same activation vector behind as the same step with
\* the por / ret decay operator taken out of the pipeline.
C14_DecayLeavesActivations ==
    [][ (pc["t1"] = "step_run" /\ pc'["t1"] = "idle" /\ last.op = "step_acquire") =>
            section'.a = run_operators(without_decay(stepoperators), last.st,
                                       last.modulators).st.section.a ]_vars

\* a step with a nonzero decay has ended: it has lowered the weight of a por
\* link of a Pipe node and it has left activation behind
C14_Witness ==
    /\ last.op = "step" /\ pc["t1"] = "idle"
    /\ modulators.por_ret_decay # 0
    /\ \E c \in DOMAIN section.w :
           /\ c[2] \in por_ret_columns(section, native_modules)
           /\ section.w[c] # 0 /\ section.w[c] < Scale \div 2 + 1
    /\ \E e \in ElementIndices(section) : section.a[e] # 0

\* a nodenet and a second one that announced its nodes first get the same
\* create_node and set_link_weight calls
NextGrowth ==
    \/ \E number_of_nodes \in 1..2, average_elements_per_node \in 1..2 :
           AnnounceSecond(number_of_nodes, average_elements_per_node)
    \/ \E nodetype \in {"Register", "Sensor"}, uid \in {None} \cup NodeUids :
           CreateNodeBoth(nodetype, uid)
    \/ \E source \in NodeUids, target \in NodeUids, weight \in WeightInputs :
           SetLinkWeightBoth(source, "gen", target, "gen", weight)

SpecGrowth == Init /\ [][NextGrowth]_vars

\* the two nodenets have the same live nodes of the same types and the same
\* links with the same weights
SameNet(st, nd) ==
    /\ \A uid \in NodeUids :
           /\ is_node(st, uid) = is_node(nd, uid)
           /\ is_node(st, uid) => type_name(st, uid) = type_name(nd, uid)
    /\ construct_links_dict(st) = construct_links_dict(nd)

\* the uids that were live in st are live in nd, with the same type and the same links
UidsKeepMeaning(st, nd) ==
    /\ \A uid \in NodeUids :
           is_node(st, uid) => is_node(nd, uid) /\ type_name(nd, uid) = type_name(st, uid)
    /\ \A k \in DOMAIN construct_links_dict(st) :
           /\ k \in DOMAIN construct_links_dict(nd)
           /\ construct_links_dict(nd)[k] = construct_links_dict(st)[k]

\* C15: the same create_node and set_link_weight calls give the same returned
\* uids, live nodes and weighted links whether the capacity grows on the way or
\* was announced before, and a growth leaves every uid handed out before it
\* live, of the same type and with the same links.
C15_GrowthTransparent ==
    [][ announced' # None =>
            /\ SameNet(NetState, announced)'
            /\ last'.op \in {"create_node", "set_link_weight"} =>
                   last'.ok = last'.second_ok /\ last'.value = last'.second_value
            /\ Grew(section, section') => UidsKeepMeaning(NetState, NetState') ]_vars

\* the first nodenet had to grow for a node after a link was set, the second
\* one had the capacity announced
C15_Witness ==
    /\ announced # None
    /\ last.op = "create_node" /\ last.ok /\ last.grew /\ ~last.second_grew
    /\ NumLinks(section) > 0

\* one node of every builtin type, as create_node is called for them
BuiltinNodes ==
    <<[type |-> "Comment", position |-> <<1, 1>>, name |-> <<"C">>, parameters |-> EmptyMap],
      [type |-> "Register", position |-> <<1, 2>>, name |-> <<"A">>, parameters |-> EmptyMap],
      [type |-> "Sensor", position |-> None, name |-> None,
       parameters |-> [datasource |-> "ds"]],
      [type |-> "Actor", position |-> None, name |-> None,
       parameters |-> [datatarget |-> "dt"]],
      [type |-> "Pipe", position |-> None, name |-> None, parameters |-> EmptyMap],
      [type |-> "Activator", position |-> None, name |-> None, parameters |-> EmptyMap]>>

\* the uids of these nodes
BuiltinUids == {node_to_id(i, 0) : i \in 1..Len(BuiltinNodes)}

\* the nodenet after construction, as a record
InitialNet ==
    [section |-> InitSection,
     positions |-> EmptyMap,
     names |-> MapPut(EmptyMap, RootUid, <<"R", "o", "o", "t">>),
     sensormap |-> EmptyMap,
     inverted_sensor_map |-> EmptyMap,
     actuatormap |-> EmptyMap,
     inverted_actuator_map |-> EmptyMap,
     proxycache |-> {},
     native_modules |-> EmptyMap]

RECURSIVE create_nodes(_, _)
create_nodes(st, nodes) ==
    IF nodes = <<>> THEN st
    ELSE create_nodes(create_node(st, Head(nodes).type, None, Head(nodes).position,
                                  Head(nodes).name, None, Head(nodes).parameters).st,
                      Tail(nodes))

\* a nodenet in which create_node has been called once for every builtin type
InitPersist ==
    /\ section = create_nodes(InitialNet, BuiltinNodes).section
    /\ positions = create_nodes(InitialNet, BuiltinNodes).positions
    /\ names = create_nodes(InitialNet, BuiltinNodes).names
    /\ sensormap = create_nodes(InitialNet, BuiltinNodes).sensormap
    /\ inverted_sensor_map = create_nodes(InitialNet, BuiltinNodes).inverted_sensor_map
    /\ actuatormap = create_nodes(InitialNet, BuiltinNodes).actuatormap
    /\ inverted_actuator_map = create_nodes(InitialNet, BuiltinNodes).inverted_actuator_map
    /\ proxycache = create_nodes(InitialNet, BuiltinNodes).proxycache
    /\ native_modules = EmptyMap
    /\ modulators = [por_ret_decay |-> 0]
    /\ stepoperators = initialize_stepoperators
    /\ step = 0
    /\ netlock = "free"
    /\ pc = [t \in Threads |-> "idle"]
    /\ opidx = [t \in Threads |-> 0]
    /\ oplog = <<>>
    /\ disk = NoFiles
    /\ announced = None
    /\ viewcache = EmptyMap
    /\ world = [agents |-> EmptyMap]
    /\ last = [op |-> "init", ok |-> TRUE]

\* the nodenet gets links, activations and a decay, is saved, the process is
\* restarted and the new nodenet loads the files
NextPersist ==
    \/ Quiet /\ \E source \in {node_to_id(2, 0), node_to_id(3, 0)},
                    weight \in {Scale \div 2, Scale} :
                   SetLinkWeight(source, "gen", node_to_id(2, 0), "gen", weight)
    \/ Quiet /\ \E uid \in {node_to_id(2, 0), node_to_id(3, 0)} :
                   GroupNodes(None, {uid}, "g")
    \/ Quiet /\ SetActivations(None, "g", Scale)
    \/ Quiet /\ \E value \in DecayInputs : SetModulator("por_ret_decay", value)
    \/ \E what \in {"save_enter", "load_enter"} : Call("t1", what)
    \/ SaveMetadata("t1")
    \/ SaveSection("t1")
    \/ Restart(EmptyMap)
    \/ LoadAcquire("t1")
    \/ LoadFail("t1")
    \/ \E data_ok \in BOOLEAN : LoadInitialize("t1", data_ok)
    \/ \E ctor_ok \in BOOLEAN : LoadFinish("t1", ctor_ok)

SpecPersist == InitPersist /\ [][NextPersist]_vars

\* the phases of the log
Phases == [i \in 1..Len(oplog) |-> oplog[i].phase]

\* the nonzero cells of a link matrix with their weights
NonzeroCells(w) == {<<c, w[c]>> : c \in {d \in DOMAIN w : w[d] # 0}}

C17_UnreadableLoadFails ==
    [][ (pc["t1"] \in {"load_read", "load_reload"} /\ pc'["t1"] = "idle"
            /\ (~last'.read \/ disk.metadata = None)) =>
            /\ last'.result = "False"
            /\ pc["t1"] = "load_read" =>
                   /\ NetState' = NetState /\ modulators' = modulators
                   /\ step' = step /\ stepoperators' = stepoperators ]_vars

\* C18: a load whose data file is structurally invalid does not end with an
\* exception and does not return True.
C18_InvalidDataFileReported ==
    [][ (pc["t1"] = "load_reload" /\ pc'["t1"] = "idle"
            /\ oplog[Len(oplog)] = Event("t1", "load", "section_failed")) =>
            last'.result = "False" ]_vars

\* a node entry of imported data
NodeEntry(uid, type) ==
    [uid |-> uid, type |-> type, parent_nodespace |-> RootUid, position |-> None,
     name |-> None, parameters |-> EmptyMap]

\* a link entry of imported data
LinkEntry(source, target) ==
    [source_node_uid |-> source, source_gate_name |-> "gen", target_node_uid |-> target,
     target_slot_name |-> "gen", weight |-> Scale]

\* the uids of the node entries of data
EntryUids(data) == {data.nodes[k].uid : k \in 1..Len(data.nodes)}

\* data of one or two nodes of a known or an unknown type, with no link or a link
MergeCandidates ==
    {[nodes |-> nodes, links |-> links] :
        nodes \in {<<NodeEntry(node_to_id(1, 0), t1)>> : t1 \in {"Register", "Unknown"}}
                 \cup {<<NodeEntry(node_to_id(1, 0), t1), NodeEntry(node_to_id(2, 0), t2)>> :
                          t1 \in {"Register", "Unknown"}, t2 \in {"Register", "Unknown"}},
        links \in {<<>>} \cup {<<LinkEntry(source, target)>> :
                                 source \in NodeUids, target \in NodeUids}}

\* imported data: the links are links between nodes of the data
MergeInputs ==
    {data \in MergeCandidates :
        \A k \in 1..Len(data.links) :
            /\ data.links[k].source_node_uid \in EntryUids(data)
            /\ data.links[k].target_node_uid \in EntryUids(data)}

\* data is merged into a nodenet that may already have nodes
NextMerge ==
    \/ CreateNode("Register", None, None, None, None, EmptyMap)
    \/ \E uid \in NodeUids : DeleteNode(uid)
    \/ \E nodenet_data \in MergeInputs, keep_uids \in BOOLEAN :
           MergeData(nodenet_data, keep_uids)

SpecMerge == Init /\ [][NextMerge]_vars

\* the entries of the data whose type the catalog does not have
UnknownEntries(data) ==
    {k \in 1..Len(data.nodes) : ~has_nodetype(data.nodes[k].type, native_modules)}

\* C19: an import into an empty nodenet whose data has a node of an unknown
\* type completes: the nodes of known types are created and the links between
\* them are set, also when a link of the data names the dropped node.
C19_UnknownTypeDropped ==
    (last.op = "merge_data" /\ last.fresh /\ UnknownEntries(last.data) # {}) =>
        /\ last.ok
        /\ Cardinality({uid \in NodeUids : is_node(NetState, uid)})
               = Len(last.data.nodes) - Cardinality(UnknownEntries(last.data))

\* catalogs in which the native module NM has the first or the second number
ReorderCatalogs ==
    {EmptyMap,
     [NM |-> [gatetypes |-> <<"gen">>, slottypes |-> <<"gen">>]],
     [AM |-> [gatetypes |-> <<"gen">>, slottypes |-> <<"gen">>],
      NM |-> [gatetypes |-> <<"gen">>, slottypes |-> <<"gen">>]]}

\* native module nodes are created and deleted while the catalog is reloaded
NextReload ==
    \/ \E nodetype \in {"Register", "AM", "NM"} :
           CreateNode(nodetype, None, None, None, None, EmptyMap)
    \/ \E uid \in NodeUids : DeleteNode(uid)
    \/ \E nm \in ReorderCatalogs, ctor_ok \in BOOLEAN : ReloadNativeModules(nm, ctor_ok)

SpecReload == Init /\ [][NextReload]_vars

\* the numeric type of every live native module node is the number the
\* current catalog gives to the type name of its instance
NumericTypesCurrent ==
    \A i \in 1..(section.NoN - 1) :
        section.allocated_nodes[i] > MAX_STD_NODETYPE =>
            /\ node_to_id(i, section.sid) \in DOMAIN section.native_module_instances
            /\ section.native_module_instances[node_to_id(i, section.sid)].type
                   \in DOMAIN native_modules
            /\ section.allocated_nodes[i] =
                   get_numerical_node_type(
                       section.native_module_instances[node_to_id(i, section.sid)].type,
                       native_modules)

\* C20: after reload_native_modules no live node has a type the catalog lacks,
\* and the numeric type of every live native module node is the number the
\* current catalog assigns to the node's type name.
C20_NumericTypesRemapped ==
    last.op = "reload_native_modules" => NumericTypesCurrent

\* imported data with one native module node that has a parameter and a state
NativeEntries ==
    {[nodes |-> <<[uid |-> uid, type |-> "NM", parent_nodespace |-> RootUid,
                   position |-> None, name |-> None, parameters |-> [p |-> 1],
                   state |-> state]>>,
      links |-> <<>>] : uid \in NodeUids, state \in {EmptyMap, [k |-> 1]}}

\* native module nodes with state and links while the catalog changes the
\* number of their elements
NextRecreate ==
    \/ CreateNode("Register", None, None, None, None, EmptyMap)
    \/ \E nodenet_data \in NativeEntries : MergeData(nodenet_data, TRUE)
    \/ \E uid \in NodeUids : DeleteNode(uid)
    \/ \E source \in NodeUids, target \in NodeUids :
           SetLinkWeight(source, "gen", target, "gen", Scale)
    \/ \E nm \in NativeCatalogs, ctor_ok \in BOOLEAN : ReloadNativeModules(nm, ctor_ok)

SpecRecreate == Init /\ [][NextRecreate]_vars

\* the parent nodespace of the live node uid
parent_of(st, uid) == st.section.allocated_node_parents[node_from_id(uid)]

\* C21: a returned reload_native_modules leaves every instance whose element
\* count changed under the same uid, in the same nodespace, with the same
\* parameters and state and without links; the other instances keep their links.
C21_RecreatedKeepsParametersAndState ==
    [][ (last'.op = "reload_native_modules" /\ last'.ok) =>
            /\ \A uid \in instances_to_recreate(NetState, native_modules') :
                   /\ uid \in DOMAIN section'.native_module_instances
                   /\ parent_of(NetState', uid) = parent_of(NetState, uid)
                   /\ section'.native_module_instances[uid].parameters
                          = section.native_module_instances[uid].parameters
                   /\ section'.native_module_instances[uid].state
                          = section.native_module_instances[uid].state
                   /\ links_of(NetState', uid) = {}
            /\ \A uid \in DOMAIN section.native_module_instances
                       \ (instances_to_recreate(NetState, native_modules')
                            \cup instances_to_delete(NetState, native_modules')) :
                   links_of(NetState', uid) = links_of(NetState, uid) ]_vars

\* cap on the number of node ids a data source or data target is mapped to
MaxMapped == 2

\* nodespace handles for a nodespace and a nodespace inside it
NestedNodespaceUids == {nodespace_to_id(i) : i \in 2..(MaxNodespaceId + 1)}

\* nodespaces inside nodespaces, with sensors, names, positions and links in them
NextNodespaces ==
    \/ \E i \in 2..(MaxNodespaceId + 1) :
           CreateNodespace(IF i = 2 THEN None ELSE nodespace_to_id(i - 1), None, None,
                           nodespace_to_id(i))
    \/ \E nodespace_uid \in NestedNodespaceUids :
           \/ CreateNode("Register", nodespace_uid, None, None, None, EmptyMap)
           \/ /\ Len(MapGet(sensormap, "ds", <<>>)) < MaxMapped
              /\ CreateNode("Sensor", nodespace_uid, <<1, 1>>, <<"A">>, None,
                            [datasource |-> "ds"])
    \/ \E source \in NodeUids, target \in NodeUids :
           SetLinkWeight(source, "gen", target, "gen", Scale)
    \/ \E uid \in NestedNodespaceUids : DeleteNodespace(uid)

SpecNodespaces == Init /\ [][NextNodespaces]_vars

\* the node ids the lists of a sensor or actuator map hold
MappedIds(map) == UNION {{map[k][j] : j \in 1..Len(map[k])} : k \in DOMAIN map}

\* C22: after delete_nodespace of a nodespace other than the root, neither it
\* nor a descendant is a nodespace, no live node has one of them as parent, no
\* link touches an element of a node that was in them, and names, positions,
\* proxy cache, sensormap and actuatormap have no entry for them or such a node.
C22_DeleteNodespaceCascades ==
    [][ (last'.op = "delete_nodespace" /\ last'.ok) =>
            /\ \A i \in nodespace_subtree(section, nodespace_from_id(last'.uid)) :
                   ~section_is_nodespace(section', i)
            /\ \A i \in 1..(section'.NoN - 1) :
                   section'.allocated_nodes[i] # 0 =>
                       section'.allocated_node_parents[i]
                           \notin nodespace_subtree(section, nodespace_from_id(last'.uid))
            /\ \A i \in nodes_in_subtree(section, nodespace_from_id(last'.uid)) :
                   \A c \in DOMAIN section'.w :
                       (c[1] \in ElementsOf(section, i) \/ c[2] \in ElementsOf(section, i))
                           => section'.w[c] = 0
            /\ \A uid \in supplements_of_subtree(section, nodespace_from_id(last'.uid)) :
                   /\ uid \notin DOMAIN names' /\ uid \notin DOMAIN positions'
                   /\ uid \notin proxycache'
            /\ \A i \in nodes_in_subtree(section, nodespace_from_id(last'.uid)) :
                   i \notin MappedIds(sensormap') /\ i \notin MappedIds(actuatormap') ]_vars

\* C23: in every reachable state every element of every named group is
\* allocated to a live node, so that no group read (get_node_uids,
\* get_activations, ...) addresses the element of a deleted node.
C23_GroupsHoldLiveElements ==
    \A g \in DOMAIN section.nodegroups :
        \A k \in 1..Len(section.nodegroups[g]) :
            section_is_node(section, section.allocated_elements_to_nodes[section.nodegroups[g][k]])

----------------------------------------------------------------------------
(* The order of a group.                                                   *)

\* the characters of names and uids in the order of their code points
Alphabet == <<"0", "1", "2", "3", "4", "5", "6", "7", "8", "9", "A", "B", "n", "s">>

ord(c) == CHOOSE i \in 1..Len(Alphabet) : Alphabet[i] = c

\* str.__lt__
StrLess(x, y) ==
    \E k \in 1..(Len(x) + 1) :
        /\ k <= Len(y)
        /\ \A j \in 1..(k - 1) : x[j] = y[j]
        /\ (k <= Len(x) => ord(x[k]) < ord(y[k]))

\* lines 1028-1031: the key of an id under a sortby
sort_key_less(st, sortby, x, y) ==
    IF sortby = "id" THEN x < y
    ELSE IF sortby = "name"
    THEN StrLess(st.names[node_to_id(x, st.section.sid)], st.names[node_to_id(y, st.section.sid)])
    ELSE FALSE

\* the order of the caller
unsorted(st, ids, sortby) == ids

\* sorted(ids, key): stable, an element goes behind those with a smaller key
\* and those with the same key that stood before it
sorted(st, ids, sortby) ==
    LET rank(i) == 1 + Cardinality({j \in 1..Len(ids) :
                          \/ sort_key_less(st, sortby, ids[j], ids[i])
                          \/ ~sort_key_less(st, sortby, ids[i], ids[j]) /\ j < i})
    IN  [p \in 1..Len(ids) |-> ids[CHOOSE i \in 1..Len(ids) : rank(i) = p]]

\* group_nodes_by_ids, lines 1023-1034, with the list of the caller and a sortby;
\* self.names[...] of line 1031 raises for a node without a name
group_nodes_by_ids_sortby(st, nodespace_uid, node_uids, group_name, gatetype, sortby) ==
    LET ns_uid == get_nodespace_uid(nodespace_uid)
        st0    == IF nodespace_uid = None THEN get_nodespace(st, None) ELSE st
        ids    == [k \in 1..Len(node_uids) |-> node_from_id(node_uids[k])]
    IN  IF sortby = "name"
           /\ \E k \in 1..Len(ids) : node_to_id(ids[k], st0.section.sid) \notin DOMAIN st0.names
        THEN Raise(st0)
        ELSE IF section_group_nodes_by_ids_fails(st0.section, ids, gatetype, st0.native_modules)
        THEN Raise(st0)
        ELSE Ok([st0 EXCEPT !.section =
                    section_group_nodes_by_ids(@, ns_uid, sorted(st0, ids, sortby), group_name,
                                               gatetype, st0.native_modules)],
                None)

\* get_activations of the section: the activations of the group's elements,
\* in the order of the group
section_get_activations(s, nodespace_uid, group) ==
    [k \in 1..Len(s.nodegroups[<<nodespace_uid, group>>]) |->
        s.a[s.nodegroups[<<nodespace_uid, group>>][k]]]

\* a read that takes a missing group for an empty one
get_activations_default_empty(st, nodespace_uid, group) ==
    LET ns_uid == get_nodespace_uid(nodespace_uid)
        st0    == IF nodespace_uid = None THEN get_nodespace(st, None) ELSE st
    IN  IF ~has_group(st0.section, ns_uid, group) THEN Ok(st0, <<>>)
        ELSE Ok(st0, section_get_activations(st0.section, ns_uid, group))

\* get_activations, lines 1054-1058
get_activations(st, nodespace_uid, group) ==
    LET ns_uid == get_nodespace_uid(nodespace_uid)
        st0    == IF nodespace_uid = None THEN get_nodespace(st, None) ELSE st
    IN  IF ~has_group(st0.section, ns_uid, group) THEN Raise(st0)
        ELSE Ok(st0, section_get_activations(st0.section, ns_uid, group))

GroupNodesSortby(nodespace_uid, node_uids, group_name, sortby) ==
    \E r \in {group_nodes_by_ids_sortby(NetState, nodespace_uid, node_uids, group_name, "gen", sortby)} :
        /\ Apply(r.st)
        /\ last' = [op |-> "group_nodes_by_ids", ok |-> r.ok, node_uids |-> node_uids,
                    group |-> group_name, sortby |-> sortby]
        /\ UNCHANGED <<stepvars, envvars>>

GetActivations(nodespace_uid, group) ==
    \E r \in {get_activations(NetState, nodespace_uid, group)} :
        /\ Apply(r.st)
        /\ last' = [op |-> "get_activations", ok |-> r.ok, group |-> group, value |-> r.value]
        /\ UNCHANGED <<stepvars, envvars>>

\* line 508: section.nodegroups[...][group] raises for a group that is not there
GetNodeUids(nodespace_uid, group) ==
    /\ last' = IF has_group(section, get_nodespace_uid(nodespace_uid), group)
               THEN [op |-> "get_node_uids", ok |-> TRUE, group |-> group,
                     value |-> get_node_uids(NetState, nodespace_uid, group)]
               ELSE [op |-> "get_node_uids", ok |-> FALSE, group |-> group, value |-> None]
    /\ UNCHANGED <<facadevars, stepvars, envvars>>

SetActivationsTo(nodespace_uid, group, new_activations) ==
    \E r \in {set_activations(NetState, nodespace_uid, group, new_activations)} :
        /\ Apply(r.st)
        /\ last' = [op |-> "set_activations", ok |-> r.ok, group |-> group,
                    new_activations |-> new_activations]
        /\ UNCHANGED <<stepvars, envvars>>

\* the lists a caller groups: one or two of the nodes, in either order
UidLists ==
    {<<u>> : u \in NodeUids} \cup {l \in {<<u, v>> : u \in NodeUids, v \in NodeUids} : l[1] # l[2]}

SortbyInputs == {"id", "name", "given"}

ActivationInputs == {[k \in 1..MaxNoE |-> IF k = 1 THEN Scale ELSE 0],
                     [k \in 1..MaxNoE |-> IF k = 1 THEN 0 ELSE Scale]}

\* named and unnamed nodes, groups in every order, bulk reads and writes
NextGroups ==
    \/ \E name \in {None, <<"A">>, <<"B">>} :
           CreateNode("Register", None, IF name = None THEN None ELSE <<1, 1>>, name, None, EmptyMap)
    \/ \E uid \in NodeUids : DeleteNode(uid)
    \/ \E node_uids \in UidLists, sortby \in SortbyInputs :
           GroupNodesSortby(None, node_uids, "g", sortby)
    \/ UngroupNodes(None, "g")
    \/ GetActivations(None, "g")
    \/ GetNodeUids(None, "g")
    \/ \E new_activations \in ActivationInputs : SetActivationsTo(None, "g", new_activations)
    \/ SetLinkWeights(None, "g", None, "g", Scale)

SpecGroups == Init /\ [][NextGroups]_vars

RootGroup == section.nodegroups[<<RootUid, "g">>]

\* the node id of the k-th member of the group g of the root nodespace
member_id(s, k) == s.allocated_elements_to_nodes[s.nodegroups[<<RootUid, "g">>][k]]

\* C24: a successful group_nodes_by_ids makes the group hold exactly the gen
\* elements of the listed nodes, by ascending node id under sortby = 'id', by
\* node name under sortby = 'name' (equal names in the order of the caller);
\* no operation other than a grouping or an ungrouping changes a group; and
\* get_node_uids, get_activations and set_activations read and write the k-th
\* value at the k-th member of the group.
C24_GroupOrderPreserved ==
    [][ /\ (last'.op = "group_nodes_by_ids" /\ last'.ok) =>
              /\ Len(RootGroup') = Len(last'.node_uids)
              /\ \A u \in SeqRange(last'.node_uids) :
                     Cardinality({k \in 1..Len(RootGroup') : member_id(section', k) = node_from_id(u)})
                       = Cardinality({k \in 1..Len(last'.node_uids) : last'.node_uids[k] = u})
              /\ \A k \in 1..Len(RootGroup') :
                     RootGroup'[k] = section'.allocated_node_offsets[member_id(section', k)]
              /\ last'.sortby = "id" =>
                     \A k \in 1..(Len(RootGroup') - 1) :
                         member_id(section', k) <= member_id(section', k + 1)
              /\ last'.sortby = "name" =>
                     \A k \in 1..(Len(RootGroup') - 1) :
                         ~StrLess(names'[node_to_id(member_id(section', k + 1), section'.sid)],
                                  names'[node_to_id(member_id(section', k), section'.sid)])
              /\ last'.sortby = "given" =>
                     \A k \in 1..Len(RootGroup') :
                         member_id(section', k) = node_from_id(last'.node_uids[k])
        /\ ~(last'.op \in {"group_nodes_by_ids", "ungroup_nodes"} /\ last'.ok) =>
              section'.nodegroups = section.nodegroups
        /\ (last'.op = "get_activations" /\ last'.ok) =>
              /\ Len(last'.value) = Len(RootGroup)
              /\ \A k \in 1..Len(RootGroup) : last'.value[k] = section.a[RootGroup[k]]
        /\ (last'.op = "get_node_uids" /\ last'.ok) =>
              /\ Len(last'.value) = Len(RootGroup)
              /\ \A k \in 1..Len(RootGroup) :
                     last'.value[k] = node_to_id(member_id(section, k), section.sid)
        /\ (last'.op = "set_activations" /\ last'.ok) =>
              /\ \A k \in 1..Len(RootGroup) : section'.a[RootGroup[k]] = last'.new_activations[k]
              /\ \A e \in DOMAIN section.a :
                     e \notin SeqRange(RootGroup) => section'.a[e] = section.a[e] ]_vars

\* a group of two nodes whose order by name is the reverse of their order
\* by id has been made with sortby = 'name', and its activations were set
\* to two different values
C24_Witness ==
    /\ last.op = "set_activations" /\ last.ok
    /\ has_group(section, RootUid, "g")
    /\ Len(RootGroup) = 2
    /\ member_id(section, 1) > member_id(section, 2)
    /\ section_is_node(section, member_id(section, 1))
    /\ section_is_node(section, member_id(section, 2))
    /\ \A k \in 1..2 : node_to_id(member_id(section, k), section.sid) \in DOMAIN names
    /\ StrLess(names[node_to_id(member_id(section, 1), section.sid)],
               names[node_to_id(member_id(section, 2), section.sid)])
    /\ section.a[RootGroup[1]] # section.a[RootGroup[2]]

BulkAccessors == {"get_activations", "set_activations", "get_node_uids", "set_link_weights"}

----------------------------------------------------------------------------
(* The link matrix under the sparse configuration.  A sparse matrix is the *)
(* set of its stored entries <<row, column, value>>; an entry that was     *)
(* written with 0 may stay stored.                                         *)

\* lines 192-200: the configured string decides, anything else falls back to sparse
sparse_weight_matrix(configuredsparse) ==
    IF configuredsparse = "True" THEN TRUE
    ELSE IF configuredsparse = "False" THEN FALSE
    ELSE TRUE

ConfiguredSparseInputs == {"True", "False", "yes"}

\* the stored entries of the sparse matrix that holds w, with the cells of
\* zeros stored explicitly
w_sparse(w, zeros) == {<<c[1], c[2], w[c]>> : c \in {x \in DOMAIN w : w[x] # 0 \/ x \in zeros}}

\* np.nonzero of a sparse matrix: the coordinates of the entries whose value is not 0
sparse_nonzero(m) == {<<e[1], e[2]>> : e \in {x \in m : x[3] # 0}}

\* line 880 read with the axis of the dense case, np.nonzero(slotrow)[0]
slotrow_links_indices_dense_axis(slotrow) == {p[1] : p \in sparse_nonzero(slotrow)}

\* line 878: np.nonzero(slotrow)[1] of the 1 x N row
slotrow_links_indices(slotrow) == {p[2] : p \in sparse_nonzero(slotrow)}

\* float(m.data) of a 1 x 1 sparse matrix: the one stored value
float_of_data(m) == IF Cardinality(m) = 1 THEN (CHOOSE e \in m : TRUE)[3] ELSE "TypeError"

\* lines 849-873 with section.sparse: w_matrix[:, column] is an N x 1 matrix
links_by_gate_column_sparse(s, node_id, nm, zeros) ==
    LET source_type == s.allocated_nodes[node_id]
        gatecolumn(gate_type) ==
            {<<e[1], 0, e[3]>> : e \in {x \in w_sparse(s.w, zeros) :
                                           x[2] = s.allocated_node_offsets[node_id] + gate_type}}
    IN  {LET target_id == s.allocated_elements_to_nodes[gi[2]]
         IN  linkdata(node_to_id(node_id, s.sid),
                      gate_name(gi[1], source_type, nm),
                      slot_name(gi[2] - s.allocated_node_offsets[target_id],
                                s.allocated_nodes[target_id], nm),
                      node_to_id(target_id, s.sid),
                      float_of_data({e \in gatecolumn(gi[1]) : e[1] = gi[2]})) :
         gi \in {x \in (0..(get_gates_per_type(source_type, nm) - 1)) \X ElementIndices(s) :
                    x[2] \in {p[1] : p \in sparse_nonzero(gatecolumn(x[1]))}}}

\* lines 875-903 with section.sparse: w_matrix[row] is a 1 x N matrix
links_by_slot_row_sparse(s, node_id, nm, zeros) ==
    LET target_type == s.allocated_nodes[node_id]
        slotrow(slot_type) ==
            {<<0, e[2], e[3]>> : e \in {x \in w_sparse(s.w, zeros) :
                                           x[1] = s.allocated_node_offsets[node_id] + slot_type}}
        at(m, index) == IF \E e \in m : e[2] = index
                        THEN (CHOOSE e \in m : e[2] = index)[3] ELSE 0
    IN  {LET source_id == s.allocated_elements_to_nodes[si[2]]
         IN  linkdata(node_to_id(source_id, s.sid),
                      gate_name(si[2] - s.allocated_node_offsets[source_id],
                                s.allocated_nodes[source_id], nm),
                      slot_name(si[1], target_type, nm),
                      node_to_id(node_id, s.sid),
                      at(slotrow(si[1]), si[2])) :
         si \in {x \in (0..(get_slots_per_type(target_type, nm) - 1)) \X ElementIndices(s) :
                    x[2] \in slotrow_links_indices(slotrow(x[1]))}}

\* construct_links_dict(None) of a nodenet configured with configuredsparse
construct_links_dict_configured(st, configuredsparse, zeros) ==
    IF ~sparse_weight_matrix(configuredsparse) THEN construct_links_dict(st)
    ELSE
    LET s        == st.section
        nm       == st.native_modules
        node_ids == {i \in NodeIndices(s) : s.allocated_nodes[i] # 0}
        bycol    == UNION {links_by_gate_column_sparse(s, i, nm, zeros) : i \in node_ids}
        byrow    == UNION {links_by_slot_row_sparse(s, i, nm, zeros) : i \in node_ids}
        keys     == {l.uid : l \in bycol \cup byrow}
        rowlast(k) == \E l \in byrow : l.uid = k /\ node_from_id(k[4]) >= node_from_id(k[1])
    IN  [k \in keys |->
            IF rowlast(k) \/ ~\E l \in bycol : l.uid = k
            THEN CHOOSE l \in byrow : l.uid = k
            ELSE CHOOSE l \in bycol : l.uid = k]

LiveNodeIds(s) == {i \in NodeIndices(s) : s.allocated_nodes[i] # 0}

\* the cells that hold 0
ZeroCells(w) == {c \in DOMAIN w : w[c] = 0}

\* C26: in every state reached by create_node, delete_node, set_link_weight,
\* grouping and set_link_weights, construct_links_dict gives the same links
\* (endpoints, gate, slot, weight) under every value of the sparse_weight_matrix
\* setting, whether or not the sparse matrix stores zeros; and a link that is
\* found in the gate column of its source and in the slot row of its target
\* is the same record in both.
C26_SparseDenseSameLinks ==
    /\ \A configuredsparse \in ConfiguredSparseInputs, zeros \in {{}, ZeroCells(section.w)} :
           construct_links_dict_configured(NetState, configuredsparse, zeros)
               = construct_links_dict(NetState)
    /\ \A zeros \in {{}, ZeroCells(section.w)} :
           \A i \in LiveNodeIds(section) :
               /\ links_by_gate_column_sparse(section, i, native_modules, zeros)
                      = links_by_gate_column(section, i, native_modules)
               /\ links_by_slot_row_sparse(section, i, native_modules, zeros)
                      = links_by_slot_row(section, i, native_modules)
    /\ \A i \in LiveNodeIds(section), j \in LiveNodeIds(section) :
           \A l \in links_by_gate_column(section, i, native_modules) :
               \A m \in links_by_slot_row(section, j, native_modules) : l.uid = m.uid => l = m

\* a block of weights has been written and a link between two different
\* live nodes is found in the gate column of the one and in the slot row of
\* the other
C26_Witness ==
    /\ last.op = "set_link_weights" /\ last.ok
    /\ \E i \in LiveNodeIds(section), j \in LiveNodeIds(section) :
           /\ i # j
           /\ \E l \in links_by_gate_column(section, i, native_modules) :
                  /\ l \in links_by_slot_row(section, j, native_modules)
                  /\ l.weight # 0

----------------------------------------------------------------------------
(* The identifier codec. *)

MaxCodecIndex == 110

\* partition tags of one, two and three digits
CodecSids == {0, 1, 9, 10, 99, 100, 999}

CodecIndices == 0..MaxCodecIndex

\* nodes and nodespaces made under a requested uid or under the next free one
NextCodec ==
    \/ \E uid \in {None} \cup NodeUids, nodespace_uid \in {None} \cup NodespaceUids :
           CreateNode("Register", nodespace_uid, None, None, uid, EmptyMap)
    \/ \E uid \in NodeUids : DeleteNode(uid)
    \/ \E uid \in {None} \cup NodespaceUids : CreateNodespace(None, None, None, uid)
    \/ \E uid \in NodespaceUids : DeleteNodespace(uid)

SpecCodec == Init /\ [][NextCodec]_vars

----------------------------------------------------------------------------
(* Cached node proxies and their views. *)

\* get_node(uid).get_gate(type).get_links() and get_node(uid).get_slot(type).get_links()
GetLinks(uid, kind, type) ==
    \E r \in {get_node(NetState, uid)} :
        /\ Apply(r.st)
        /\ viewcache' = IF r.ok
                        THEN MapPut(viewcache, <<uid, kind, type>>,
                                    get_links(viewcache, NetState, uid, kind, type))
                        ELSE viewcache
        /\ last' = IF r.ok
                   THEN [op |-> "get_links", ok |-> TRUE, uid |-> uid, kind |-> kind,
                         type |-> type,
                         value |-> get_links(viewcache, NetState, uid, kind, type)]
                   ELSE [op |-> "get_links", ok |-> FALSE, uid |-> uid]
        /\ UNCHANGED <<stepvars, disk, announced, world>>

\* registers that are linked, grouped, read through their proxies and deleted
NextProxies ==
    \/ CreateNode("Register", None, None, None, None, EmptyMap)
    \/ \E uid \in NodeUids : DeleteNode(uid)
    \/ \E uid \in NodeUids : GetNode(uid)
    \/ \E uid \in NodeUids, kind \in {"gate", "slot"} : GetLinks(uid, kind, "gen")
    \/ \E source \in NodeUids, target \in NodeUids, weight \in {0, Scale} :
           SetLinkWeight(source, "gen", target, "gen", weight)
    \/ \E uid \in NodeUids : GroupNodes(None, {uid}, "g")
    \/ SetLinkWeights(None, "g", None, "g", Scale)

SpecProxies == Init /\ [][NextProxies]_vars

\* C28: after a successful delete_node(uid) the proxy cache has no entry for
\* uid; after a successful set_link_weights it has none for a member of
\* either group; after a successful set_link_weight the cached proxies of the
\* source and of the target hold no list for that gate and that slot; and
\* the links a node handed out by get_node lists for a gate or a slot are
\* the links of the nodenet, none of them to or from a deleted node.
C28_NoStaleProxy ==
    [][ /\ (last'.op = "delete_node" /\ last'.ok) => last'.uid \notin proxycache'
        /\ (last'.op = "set_link_weights" /\ last'.ok) =>
               SeqRange(get_node_uids(NetState', None, "g")) \cap proxycache' = {}
        /\ (last'.op = "set_link_weight" /\ last'.ok) =>
               /\ <<last'.source, "gate", last'.gate>> \notin DOMAIN viewcache'
               /\ <<last'.target, "slot", last'.slot>> \notin DOMAIN viewcache'
        /\ (last'.op = "get_links" /\ last'.ok) =>
               /\ last'.value = current_links(NetState', last'.uid, last'.kind, last'.type)
               /\ \A l \in last'.value :
                      is_node(NetState', l.source_node_uid) /\ is_node(NetState', l.target_node_uid)
      ]_vars

----------------------------------------------------------------------------
(* Reading the actuators. *)

\* read_actuators, lines 991-1009: per datatarget of actuatormap the sum of
\* the activations at the gen elements of the ids listed for it
read_actuators(st) ==
    LET GEN == 0
    IN
    [datatarget \in DOMAIN st.actuatormap |->
        SumOver([k \in 1..Len(st.actuatormap[datatarget]) |->
                    st.section.a[st.section.allocated_node_offsets[st.actuatormap[datatarget][k]]
                                     + GEN]],
                1..Len(st.actuatormap[datatarget]))]

ReadActuators ==
    /\ last' = [op |-> "read_actuators", ok |-> TRUE, value |-> read_actuators(NetState)]
    /\ UNCHANGED <<facadevars, stepvars, envvars>>

Datatargets == {"dt", "du"}

\* actuators inside and outside a nested nodespace, activations written
\* through a group, nodes and the nodespace deleted, the actuators read
NextActuators ==
    \/ CreateNodespace(None, None, None, nodespace_to_id(2))
    \/ \E nodespace_uid \in {None, nodespace_to_id(2)}, datatarget \in Datatargets :
           /\ Len(MapGet(actuatormap, datatarget, <<>>)) < MaxMapped
           /\ CreateNode("Actor", nodespace_uid, None, None, None, [datatarget |-> datatarget])
    \/ \E uid \in NodeUids : DeleteNode(uid)
    \/ DeleteNodespace(nodespace_to_id(2))
    \/ \E node_uids \in UidLists : GroupNodesSortby(None, node_uids, "g", "id")
    \/ \E new_activations \in ActivationInputs : SetActivationsTo(None, "g", new_activations)
    \/ ReadActuators

SpecActuators == Init /\ [][NextActuators]_vars

\* the live actuator nodes that are mapped to the datatarget
ActuatorNodes(st, datatarget) ==
    {i \in LiveNodeIds(st.section) :
        /\ type_name(st, node_to_id(i, st.section.sid)) = "Actor"
        /\ SeqContains(MapGet(st.actuatormap, datatarget, <<>>), i)}

\* C29: read_actuators returns an entry for exactly the datatargets that
\* have an actuator node, the entry is the sum of the activations at the gen
\* elements of the actuator nodes mapped to the datatarget, and the call
\* changes no activation.
C29_ReadActuatorsSums ==
    [][ last'.op = "read_actuators" =>
            /\ \A datatarget \in Datatargets :
                   IF ActuatorNodes(NetState, datatarget) = {}
                   THEN datatarget \notin DOMAIN last'.value
                   ELSE /\ datatarget \in DOMAIN last'.value
                        /\ last'.value[datatarget]
                               = SumOver([i \in ActuatorNodes(NetState, datatarget) |->
                                             section.a[section.allocated_node_offsets[i]
                                                 + get_numerical_gate_type("gen",
                                                       node_type_of(section, i, native_modules))]],
                                         ActuatorNodes(NetState, datatarget))
            /\ section'.a = section.a ]_vars

----------------------------------------------------------------------------
(* Imported nodespaces. *)

\* a nodespace entry of imported data
NodespaceEntry(uid, parent_nodespace) ==
    [uid |-> uid, parent_nodespace |-> parent_nodespace, position |-> None, name |-> None]

\* the sequences without repetition over a set
Orders(S) ==
    {f \in [1..Cardinality(S) -> S] : \A j \in 1..Cardinality(S), k \in 1..Cardinality(S) :
                                          j # k => f[j] # f[k]}

\* nodespace data whose parent chains end at the root, with and without an
\* entry for the root itself, in every order of iteration
NodespaceDataSets ==
    {{NodespaceEntry(nodespace_to_id(2), RootUid)},
     {NodespaceEntry(nodespace_to_id(2), RootUid),
      NodespaceEntry(nodespace_to_id(3), nodespace_to_id(2))},
     {NodespaceEntry(nodespace_to_id(3), RootUid),
      NodespaceEntry(nodespace_to_id(2), nodespace_to_id(3))},
     {NodespaceEntry(RootUid, None),
      NodespaceEntry(nodespace_to_id(2), RootUid)},
     {NodespaceEntry(RootUid, None),
      NodespaceEntry(nodespace_to_id(2), RootUid),
      NodespaceEntry(nodespace_to_id(3), nodespace_to_id(2))}}

NodespaceMergeInputs ==
    {[nodes |-> <<>>, links |-> <<>>, nodespaces |-> order] :
        order \in UNION {Orders(S) : S \in NodespaceDataSets}}

AllocatedNodespaces(s) ==
    {i \in 1..(INITIAL_NUMBER_OF_NODESPACES - 1) : s.allocated_nodespaces[i] # 0}

\* nodespace data is merged into a nodenet that may already have nodespaces
NextMergeNodespaces ==
    \/ \E parent_uid \in {None, nodespace_to_id(2)} :
           /\ Cardinality(AllocatedNodespaces(section)) < MaxNodespaceId
           /\ CreateNodespace(parent_uid, None, None, None)
    \/ \E uid \in NestedNodespaceUids : DeleteNodespace(uid)
    \/ \E nodenet_data \in NodespaceMergeInputs, keep_uids \in BOOLEAN :
           /\ Cardinality(AllocatedNodespaces(section)) <= MaxNodespaceId
           /\ MergeData(nodenet_data, keep_uids)

SpecMergeNodespaces == Init /\ [][NextMergeNodespaces]_vars

\* the uid an imported nodespace has in the nodenet
merged_uid(l, uid) == IF l.keep_uids THEN uid ELSE l.uidmap[uid]

\* C30: a merge_data of nodespace data whose parent chains end at the root
\* completes; every nodespace it creates is created when its parent exists
\* already; and afterwards every nodespace of the data is a nodespace of the
\* nodenet whose parent is an existing nodespace, the one the data names.
C30_MergedNodespacesHaveParents ==
    [][ (last'.op = "merge_data" /\ nodespaces_of(last'.data) # <<>>) =>
            /\ last'.ok
            /\ \A k \in 1..Len(last'.created) :
                   \/ last'.created[k] = RootUid
                   \/ nodespace_to_id(section'.allocated_nodespaces[nodespace_from_id(last'.created[k])])
                          \in get_nodespace_uids(NetState)
                               \cup {last'.created[j] : j \in 1..(k - 1)}
            /\ \A k \in 1..Len(last'.data.nodespaces) :
                   LET entry == last'.data.nodespaces[k]
                   IN  /\ entry.uid \in DOMAIN last'.uidmap \/ last'.keep_uids
                       /\ is_nodespace(NetState', merged_uid(last', entry.uid))
                       /\ entry.uid # RootUid =>
                              /\ is_nodespace(NetState',
                                     nodespace_to_id(section'.allocated_nodespaces[
                                         nodespace_from_id(merged_uid(last', entry.uid))]))
                              /\ (last'.created # <<>> /\ merged_uid(last', entry.uid)
                                      \in SeqRange(last'.created)) =>
                                     nodespace_to_id(section'.allocated_nodespaces[
                                         nodespace_from_id(merged_uid(last', entry.uid))])
                                       = merged_uid(last', entry.parent_nodespace) ]_vars

----------------------------------------------------------------------------
(* The world and its agents (world.py, worldadapter.py).  An agent is a    *)
(* world adapter object; world.agents maps nodenet uids to them.           *)

\* the classes module worldadapter defines, lines 27, 108, 127
WorldAdapterClasses == {"WorldAdapter", "Default", "ArrayWorldAdapter"}

\* the classes with an @abstractmethod left, lines 98-101 and 176-204
AbstractClasses == {"WorldAdapter", "ArrayWorldAdapter"}

\* World.__init__, line 93: the subclasses of WorldAdapter by name
supported_worldadapters == {"Default", "ArrayWorldAdapter"}

\* random.uniform(0, 1), line 124
RandomValues == {0, 1}

\* sorted() over the keys the adapters use
KeyOrder == <<"echo", "random", "static_off", "static_on">>

sorted_keys(S) ==
    LET rank(k) == Cardinality({j \in 1..Len(KeyOrder) : j < k /\ KeyOrder[j] \in S})
        n == Cardinality({j \in 1..Len(KeyOrder) : KeyOrder[j] \in S})
    IN  [p \in 1..n |-> KeyOrder[CHOOSE k \in 1..Len(KeyOrder) :
                                    KeyOrder[k] \in S /\ rank(k) = p - 1]]

\* Default.update_data_sources_and_targets, lines 119-124
Default_update_data_sources_and_targets(a, rnd) ==
    [a EXCEPT !.datatarget_feedback =
                  IF a.datatargets["echo"] # 0
                  THEN [@ EXCEPT !["echo"] = a.datatargets["echo"]] ELSE @,
              !.datasources = [@ EXCEPT !["static_on"] = 1, !["random"] = rnd],
              !.seen = a.datatargets]

\* Default.__init__, lines 112-117; `seen` and `written` are history fields: the
\* datatargets the last update_data_sources_and_targets read, and what callers
\* have added to each datatarget since the last update
Default_init(uid, rnd) ==
    Default_update_data_sources_and_targets(
        [class |-> "Default", uid |-> uid,
         datasources |-> [k \in {"static_on", "random", "static_off"} |-> 0],
         datatargets |-> [k \in {"echo"} |-> 0],
         datatarget_feedback |-> [k \in {"echo"} |-> 0],
         seen |-> EmptyMap, written |-> [k \in {"echo"} |-> 0]], rnd)

\* binding a call to __init__(self, world, uid=None, **data), lines 34, 112, 134:
\* a second positional argument is uid, and uid given again by keyword is a
\* TypeError; an abstract class cannot be instantiated
constructor_binds(class, n_positional, keywords) ==
    /\ class \notin AbstractClasses
    /\ n_positional \in 1..2
    /\ ~(n_positional = 2 /\ "uid" \in keywords)

\* spawn_agent, lines 227-239
spawn_agent(w, worldadapter_name, nodenet_uid, rnd) ==
    IF worldadapter_name \notin WorldAdapterClasses
    THEN \* getattr raises AttributeError, which is caught
         Ok(w, <<FALSE, IF worldadapter_name \in supported_worldadapters
                        THEN "Worldadapter not found"
                        ELSE "Incompatible Worldadapter for this World.">>)
    ELSE IF ~constructor_binds(worldadapter_name, 2, {"uid"})
    THEN Raise(w)
    ELSE Ok([w EXCEPT !.agents = MapPut(@, nodenet_uid, Default_init(nodenet_uid, rnd))],
            <<TRUE, nodenet_uid>>)

\* register_nodenet, lines 199-218
register_nodenet(w, worldadapter, nodenet_uid, rnd) ==
    IF nodenet_uid \in DOMAIN w.agents
    THEN IF w.agents[nodenet_uid].class = worldadapter
         THEN Ok(w, <<TRUE, nodenet_uid>>)
         ELSE Ok(w, <<FALSE, "Nodenet agent already exists in this world, but has the wrong type">>)
    ELSE spawn_agent(w, worldadapter, nodenet_uid, rnd)

\* unregister_nodenet, lines 220-225
unregister_nodenet(w, nodenet_uid) ==
    IF nodenet_uid \in DOMAIN w.agents
    THEN [w EXCEPT !.agents = MapDel(@, nodenet_uid)] ELSE w

\* a concrete ArrayWorldAdapter: ArrayWorldAdapter.__init__, lines 134-138, and
\* the arrays sized as lines 192-203 demand of the subclass; `sources` and
\* `targets` are what its get_available_datasources / get_available_datatargets
\* return
Array_init(uid, sources, targets) ==
    [class |-> "ConcreteArrayWorldAdapter", uid |-> uid,
     sources |-> sources, targets |-> targets,
     datasource_values |-> [k \in 1..Len(sources) |-> 0],
     datatarget_values |-> [k \in 1..Len(targets) |-> 0],
     datatarget_feedback_values |-> [k \in 1..Len(targets) |-> 0]]

\* lines 50-52 and 176-182
adapter_get_available_datasources(a) ==
    IF a.class = "Default" THEN sorted_keys(DOMAIN a.datasources) ELSE a.sources

\* lines 54-56 and 184-190
adapter_get_available_datatargets(a) ==
    IF a.class = "Default" THEN sorted_keys(DOMAIN a.datatargets) ELSE a.targets

\* the attributes World.__init__ assigns, lines 86-103, and the properties
WorldAttributes ==
    {"data", "supported_worldadapters", "supported_worldobjects", "uid", "owner", "name",
     "filename", "agents", "objects", "current_step", "is_active"}

\* World.get_available_datasources, lines 241-245
get_available_datasources(w, nodenet_uid) ==
    IF nodenet_uid \in DOMAIN w.agents
    THEN Ok(w, adapter_get_available_datasources(w.agents[nodenet_uid]))
    ELSE Ok(w, None)

\* the attribute of the world that line 249 tests the uid against
get_available_datatargets_registry == "worldadapters"

\* World.get_available_datatargets, lines 247-251
get_available_datatargets(w, nodenet_uid) ==
    IF get_available_datatargets_registry \notin WorldAttributes
    THEN Raise(w)
    ELSE IF nodenet_uid \in DOMAIN w.agents
    THEN Ok(w, adapter_get_available_datatargets(w.agents[nodenet_uid]))
    ELSE Ok(w, None)

AgentUids == {"a1", "a2"}

\* what callers ask for: the instantiable class, an abstract one, a name the
\* module does not define
RequestedAdapters == {"Default", "ArrayWorldAdapter", "ConcreteArrayWorldAdapter", "Braitenberg"}

ArrayLayouts ==
    {<<<<"x", "y">>, <<"x", "y">>>>, <<<<"x", "y">>, <<"y", "x">>>>,
     <<<<"x", "y">>, <<"y", "z">>>>, <<<<"x">>, <<"x", "y">>>>}

WorldCall(r, l) ==
    /\ world' = r.st
    /\ last' = l
    /\ UNCHANGED <<facadevars, stepvars, disk, announced, viewcache>>

RegisterNodenet(worldadapter, nodenet_uid) ==
    \E rnd \in RandomValues :
    \E r \in {register_nodenet(world, worldadapter, nodenet_uid, rnd)} :
        WorldCall(r, [op |-> "register_nodenet", ok |-> r.ok, value |-> r.value,
                      worldadapter |-> worldadapter, uid |-> nodenet_uid])

UnregisterNodenet(nodenet_uid) ==
    WorldCall(Ok(unregister_nodenet(world, nodenet_uid), None),
              [op |-> "unregister_nodenet", ok |-> TRUE, uid |-> nodenet_uid])

\* world.agents[uid] = Default(world, uid=uid): an agent body that is part of the
\* world, placed through the agents property, lines 67-73
PlaceDefault(nodenet_uid) ==
    \E rnd \in RandomValues :
        /\ constructor_binds("Default", 1, {"uid"})
        /\ WorldCall(Ok([world EXCEPT !.agents = MapPut(@, nodenet_uid, Default_init(nodenet_uid, rnd))], None),
                     [op |-> "agents", ok |-> TRUE, uid |-> nodenet_uid])

PlaceArray(nodenet_uid, layout) ==
    WorldCall(Ok([world EXCEPT !.agents = MapPut(@, nodenet_uid,
                                               Array_init(nodenet_uid, layout[1], layout[2]))], None),
              [op |-> "agents", ok |-> TRUE, uid |-> nodenet_uid])

GetAvailableDatasources(nodenet_uid) ==
    \E r \in {get_available_datasources(world, nodenet_uid)} :
        WorldCall(r, [op |-> "get_available_datasources", ok |-> r.ok, value |-> r.value,
                      uid |-> nodenet_uid])

GetAvailableDatatargets(nodenet_uid) ==
    \E r \in {get_available_datatargets(world, nodenet_uid)} :
        WorldCall(r, [op |-> "get_available_datatargets", ok |-> r.ok, value |-> r.value,
                      uid |-> nodenet_uid])

\* nodenets are registered at and unregistered from a world that may hold
\* agent bodies already, and ask for their datasources and datatargets
NextWorld ==
    \/ \E worldadapter \in RequestedAdapters, uid \in AgentUids :
           RegisterNodenet(worldadapter, uid)
    \/ \E uid \in AgentUids : UnregisterNodenet(uid)
    \/ \E uid \in AgentUids : PlaceDefault(uid)
    \/ \E uid \in AgentUids : PlaceArray(uid, <<<<"x", "y">>, <<"y", "x">>>>)
    \/ \E uid \in AgentUids : GetAvailableDatasources(uid)
    \/ \E uid \in AgentUids : GetAvailableDatatargets(uid)

SpecWorld == Init /\ [][NextWorld]_vars

\* C31: register_nodenet for a uid that is an agent of the requested class
\* returns (True, uid) and changes no agent; for a uid that is an agent of
\* another class it returns (False, message) and changes no agent; for any other
\* uid it returns, with (True, uid) and the uid an agent of the requested class,
\* or with (False, message) and the agents unchanged.
C31_RegisterNodenet ==
    [][ last'.op = "register_nodenet" =>
            /\ last'.ok
            /\ IF last'.uid \in DOMAIN world.agents
               THEN /\ world' = world
                    /\ last'.value[1] = (world.agents[last'.uid].class = last'.worldadapter)
                    /\ last'.value[1] => last'.value[2] = last'.uid
               ELSE IF last'.value[1]
                    THEN /\ last'.value[2] = last'.uid
                         /\ last'.uid \in DOMAIN world'.agents
                         /\ world'.agents[last'.uid].class = last'.worldadapter
                    ELSE world' = world ]_vars

\* C32: get_available_datatargets returns the datatarget types of the agent of
\* a registered uid and None for a uid that is not registered, as
\* get_available_datasources does with the datasource types; unregister_nodenet
\* leaves the uid unregistered, so that both return None for it afterwards.
C32_AvailableDatatargets ==
    [][ /\ last'.op = "get_available_datatargets" =>
              /\ last'.ok
              /\ last'.value = IF last'.uid \in DOMAIN world.agents
                               THEN adapter_get_available_datatargets(world.agents[last'.uid])
                               ELSE None
        /\ last'.op = "get_available_datasources" =>
              /\ last'.ok
              /\ last'.value = IF last'.uid \in DOMAIN world.agents
                               THEN adapter_get_available_datasources(world.agents[last'.uid])
                               ELSE None
        /\ last'.op = "unregister_nodenet" => last'.uid \notin DOMAIN world'.agents ]_vars

----------------------------------------------------------------------------
(* Array world adapters. *)

\* cap on the value a datatarget accumulates in a behaviour
MaxValue == 2

\* ArrayWorldAdapter.add_to_datatarget, lines 149-152: list.index raises
\* ValueError for a key that is not in the list, and the list item assignment
\* IndexError for an index past the end
array_add_to_datatarget(a, key, value) ==
    LET index == IndexOf(adapter_get_available_datasources(a), key)
    IN  IF index = 0 \/ index > Len(a.datatarget_values)
        THEN Raise(a)
        ELSE Ok([a EXCEPT !.datatarget_values[index] = @ + value], None)

\* ArrayWorldAdapter.set_datatarget_values, lines 168-170
array_set_datatarget_values(a, values) == [a EXCEPT !.datatarget_values = values]

AdapterCall(nodenet_uid, r, l) ==
    /\ world' = [world EXCEPT !.agents[nodenet_uid] = r.st]
    /\ last' = l
    /\ UNCHANGED <<facadevars, stepvars, disk, announced, viewcache>>

ArrayAddToDatatarget(nodenet_uid, key, value) ==
    /\ nodenet_uid \in DOMAIN world.agents
    /\ world.agents[nodenet_uid].class = "ConcreteArrayWorldAdapter"
    /\ \A k \in 1..Len(world.agents[nodenet_uid].datatarget_values) :
           world.agents[nodenet_uid].datatarget_values[k] + value <= MaxValue
    /\ \E r \in {array_add_to_datatarget(world.agents[nodenet_uid], key, value)} :
           AdapterCall(nodenet_uid, r,
                       [op |-> "add_to_datatarget", ok |-> r.ok, uid |-> nodenet_uid,
                        key |-> key, value |-> value])

ArraySetDatatargetValues(nodenet_uid) ==
    /\ nodenet_uid \in DOMAIN world.agents
    /\ world.agents[nodenet_uid].class = "ConcreteArrayWorldAdapter"
    /\ \E values \in [1..Len(world.agents[nodenet_uid].targets) -> {0, 1}] :
           AdapterCall(nodenet_uid, Ok(array_set_datatarget_values(world.agents[nodenet_uid], values), None),
                       [op |-> "set_datatarget_values", ok |-> TRUE, uid |-> nodenet_uid])

ArrayKeys == {"x", "y", "z"}

\* array adapters whose datasources and datatargets agree, differ in order, or
\* differ in content, written to key by key
NextArray ==
    \/ \E uid \in AgentUids, layout \in ArrayLayouts :
           uid \notin DOMAIN world.agents /\ PlaceArray(uid, layout)
    \/ \E uid \in AgentUids, key \in ArrayKeys, value \in 1..MaxValue :
           ArrayAddToDatatarget(uid, key, value)
    \/ \E uid \in AgentUids : ArraySetDatatargetValues(uid)
    \/ \E uid \in AgentUids : UnregisterNodenet(uid)

SpecArray == Init /\ [][NextArray]_vars

\* C33: add_to_datatarget(key, value) of an array adapter, for a key among its
\* datatargets, adds value to the entry of datatarget_values at the position of
\* key in get_available_datatargets() and changes nothing else of the adapter.
C33_ArrayAddToDatatarget ==
    [][ (/\ last'.op = "add_to_datatarget"
         /\ world.agents[last'.uid].class = "ConcreteArrayWorldAdapter"
         /\ SeqContains(adapter_get_available_datatargets(world.agents[last'.uid]), last'.key)) =>
            /\ last'.ok
            /\ world'.agents[last'.uid] =
                   [world.agents[last'.uid] EXCEPT
                       !.datatarget_values[IndexOf(adapter_get_available_datatargets(
                                                       world.agents[last'.uid]), last'.key)]
                           = @ + last'.value] ]_vars

----------------------------------------------------------------------------
(* The sensor and actuator maps. *)

\* a map and its inverse agree and name live nodes of the type only
maps_consistent(st, map, inverted, nodetype) ==
    /\ \A key \in DOMAIN map :
           /\ map[key] # <<>>
           /\ \A k \in 1..Len(map[key]) :
                  /\ map[key][k] \in LiveNodeIds(st.section)
                  /\ type_name(st, node_to_id(map[key][k], st.section.sid)) = nodetype
                  /\ node_to_id(map[key][k], st.section.sid) \in DOMAIN inverted
                  /\ inverted[node_to_id(map[key][k], st.section.sid)] = key
                  /\ \A key2 \in DOMAIN map :
                         \A j \in 1..Len(map[key2]) :
                             map[key2][j] = map[key][k] => (key2 = key /\ j = k)
    /\ \A uid \in DOMAIN inverted :
           /\ inverted[uid] \in DOMAIN map
           /\ SeqContains(map[inverted[uid]], node_from_id(uid))

\* no call of step, load or save is under way
Idle == \A t \in Threads : pc[t] = "idle"

\* sensors, actuators and nodes of another type are created and deleted, ids
\* are reused, the nodenet is saved and loads its files
NextMaps ==
    \/ Idle /\ \E datasource \in {"ds", "dr"} :
                   /\ Len(MapGet(sensormap, datasource, <<>>)) < MaxMapped
                   /\ CreateNode("Sensor", None, None, None, None, [datasource |-> datasource])
    \/ Idle /\ \E datatarget \in Datatargets :
                   /\ Len(MapGet(actuatormap, datatarget, <<>>)) < MaxMapped
                   /\ CreateNode("Actor", None, None, None, None, [datatarget |-> datatarget])
    \/ Idle /\ CreateNode("Register", None, None, None, None, EmptyMap)
    \/ Idle /\ \E uid \in NodeUids : DeleteNode(uid)
    \/ \E what \in {"save_enter", "load_enter"} : Call("t1", what)
    \/ SaveMetadata("t1")
    \/ SaveSection("t1")
    \/ LoadAcquire("t1")
    \/ LoadFail("t1")
    \/ \E data_ok \in BOOLEAN : LoadInitialize("t1", data_ok)
    \/ \E ctor_ok \in BOOLEAN : LoadFinish("t1", ctor_ok)

SpecMaps == Init /\ [][NextMaps]_vars

\* C34: whenever no load is under way, a node id is in sensormap[d] exactly
\* when its uid maps to d in inverted_sensor_map, and likewise for actuatormap
\* and inverted_actuator_map; no id is listed twice, no list is empty, and
\* every listed id is a live Sensor (Actor) node.
C34_SensorActuatorMapsConsistent ==
    (\A t \in Threads : pc[t] \notin {"load_read", "load_reload"}) =>
        /\ maps_consistent(NetState, sensormap, inverted_sensor_map, "Sensor")
        /\ maps_consistent(NetState, actuatormap, inverted_actuator_map, "Actor")

----------------------------------------------------------------------------
(* Exit paths of step and load. *)

\* cap on the number of step / load / save calls of a behaviour with exceptions
MaxRequests == 3

\* `with self.netlock`, lines 295 and 477: the lock is released when the block is
\* left by the exception of an operator
with_netlock_exits_on_return_only(lock) == lock

with_netlock_exits(lock) == "free"

\* step, line 481
next_step_skips(stp) == stp + 2

next_step(stp) == stp + 1

Request(t, what) ==
    /\ pc[t] = "idle"
    /\ CallsBegun < MaxRequests
    /\ pc' = [pc EXCEPT ![t] = what]
    /\ UNCHANGED <<facadevars, envvars, modulators, stepoperators, step, netlock, opidx, oplog, last>>

\* step, lines 478-479: operator.execute raises; the exception leaves the with
\* block and step, line 481 is not reached
OperatorRaise(t) ==
    /\ pc[t] = "op_run"
    /\ netlock' = with_netlock_exits(netlock)
    /\ pc' = [pc EXCEPT ![t] = "idle"]
    /\ oplog' = Append(oplog, Event(t, stepoperators[opidx[t]], "raise"))
    /\ last' = [op |-> "step", ok |-> FALSE, thread |-> t]
    /\ UNCHANGED <<facadevars, envvars, modulators, stepoperators, step, opidx>>

\* step, line 481, and the end of the with block
StepReturn(t) ==
    /\ pc[t] = "step_run"
    /\ opidx[t] > Len(stepoperators)
    /\ step' = next_step(step)
    /\ netlock' = "free"
    /\ pc' = [pc EXCEPT ![t] = "idle"]
    /\ oplog' = Append(oplog, Event(t, "step", "release"))
    /\ last' = [op |-> "step", ok |-> TRUE, thread |-> t]
    /\ UNCHANGED <<facadevars, envvars, modulators, stepoperators, opidx>>

\* the steps of thread t inside step, load and save
ThreadStep(t) ==
    \/ StepAcquire(t)
    \/ OperatorBegin(t)
    \/ OperatorEnd(t)
    \/ OperatorRaise(t)
    \/ StepReturn(t)
    \/ LoadAcquire(t)
    \/ LoadFail(t)
    \/ LoadInitialize(t, TRUE)
    \/ LoadFinish(t, TRUE)
    \/ SaveMetadata(t)
    \/ SaveSection(t)

\* a nodenet with a comment node is saved, loads its files (the merge of the
\* saved comment raises when the node is still there) and is stepped by two
\* threads, with operators that may raise
NextExits ==
    \/ Quiet /\ CreateNode("Comment", None, None, None, None, EmptyMap)
    \/ oplog = <<>> /\ Request("t1", "save_enter")
    \/ \E what \in {"load_enter", "step_enter"} : Request("t1", what)
    \/ Request("t2", "step_enter")
    \/ \E t \in Threads : ThreadStep(t)

\* every thread that can take a step of its call takes it eventually
SpecExits == Init /\ [][NextExits]_vars /\ \A t \in Threads : WF_vars(ThreadStep(t))

\* the places of a thread inside the with block of step or load
Holding == {"step_run", "op_run", "load_read", "load_reload"}

\* C35: the net lock is held exactly by a thread inside the with block of step
\* or load; it is free after every exit of the block (return, the early exit of
\* load, an exception of an operator or of merge_data); nothing load calls
\* inside the block takes or releases it; and a thread that has called step
\* gets the lock and runs its operators eventually.
C35_LockReleasedOnEveryExit ==
    /\ [](\A t \in Threads : (netlock = t) <=> (pc[t] \in Holding))
    /\ [][\A t \in Threads :
              /\ (pc[t] \in Holding /\ pc'[t] \notin Holding) => netlock' = "free"
              /\ (pc[t] \in Holding /\ pc'[t] \in Holding) => netlock' = t]_vars
    /\ \A t \in Threads : (pc[t] = "step_enter") ~> (pc[t] = "step_run")

\* a step got the lock after an operator of an earlier step had raised, and a
\* load has left its block early
C35_Witness ==
    /\ \E i \in 1..Len(oplog), j \in 1..Len(oplog) :
           /\ i < j
           /\ oplog[i].phase = "raise"
           /\ oplog[j] = Event(oplog[j].thread, "step", "acquire")
    /\ \E i \in 1..(Len(oplog) - 1) :
           /\ oplog[i].op = "load" /\ oplog[i].phase = "acquire"
           /\ oplog[i + 1].op = "load" /\ oplog[i + 1].phase = "release"

\* the events of thread t in the log
events_of(log, t) == SelectSeq(log, LAMBDA e : e.thread = t)

\* the log of thread t ends with a whole step: the lock taken, then every
\* operator of the list begun and ended, in the order of the list
ran_every_operator(log, t) ==
    LET mine == events_of(log, t)
        n    == Len(stepoperators)
    IN  /\ Len(mine) >= 2 * n + 1
        /\ mine[Len(mine) - 2 * n] = Event(t, "step", "acquire")
        /\ \A k \in 1..n :
               /\ mine[Len(mine) - 2 * n + 2 * k - 1] = Event(t, stepoperators[k], "begin")
               /\ mine[Len(mine) - 2 * n + 2 * k] = Event(t, stepoperators[k], "end")

\* C36: current_step is 0 on a new nodenet; a step that returns has increased
\* it by exactly 1, after every operator of the step has run; a step whose
\* operator raises leaves it as it was; and it changes in no other way than by
\* a returning step or by a load, which sets it to the value of the metadata.
C36_CurrentStepCounts ==
    /\ step = 0
    /\ [][ /\ \A t \in Threads :
                  (oplog' = Append(oplog, Event(t, "step", "release"))) =>
                      /\ step' = step + 1
                      /\ ran_every_operator(oplog, t)
           /\ (oplog' # oplog /\ oplog'[Len(oplog')].phase = "raise") => step' = step
           /\ step' # step =>
                  \/ \E t \in Threads : oplog' = Append(oplog, Event(t, "step", "release"))
                  \/ \E t \in Threads :
                         /\ pc[t] = "load_read" /\ pc'[t] = "load_reload"
                         /\ json_load(disk.metadata) # None
                         /\ step' = json_load(disk.metadata).current_step ]_vars

\* one step has returned and counted, the operator of another has raised
C36_Witness ==
    /\ step = 1
    /\ last.op = "step" /\ ~last.ok
    /\ \E i \in 1..Len(oplog) : oplog[i].phase = "raise"

----------------------------------------------------------------------------
(* What get_node serves. *)

\* the catalog with and without the native module type
ServedCatalogs == {nm \in NativeCatalogs : \A ty \in DOMAIN nm : Len(nm[ty].gatetypes) = 1}

\* nodes of standard types, comments and native modules are created inside
\* and outside a nested nodespace, deleted one by one, with their nodespace
\* or by a reload of the catalog, the new nodenet is saved and loads its files
\* later, and get_node is asked for node uids and for the uids of the nodespaces
NextServed ==
    \/ Idle /\ CreateNodespace(None, None, None, nodespace_to_id(2))
    \/ Idle /\ \E nodetype \in {"Register", "Comment", "NM"},
                  nodespace_uid \in {None, nodespace_to_id(2)} :
                   CreateNode(nodetype, nodespace_uid, None, None, None, EmptyMap)
    \/ Idle /\ \E uid \in NodeUids : DeleteNode(uid)
    \/ Idle /\ DeleteNodespace(nodespace_to_id(2))
    \/ Idle /\ \E nm \in ServedCatalogs, ctor_ok \in BOOLEAN : ReloadNativeModules(nm, ctor_ok)
    \/ Idle /\ \E uid \in NodeUids \cup {RootUid, nodespace_to_id(2)} : GetNode(uid)
    \/ last.op = "init" /\ Call("t1", "save_enter")
    \/ Call("t1", "load_enter")
    \/ SaveMetadata("t1")
    \/ SaveSection("t1")
    \/ LoadAcquire("t1")
    \/ LoadInitialize("t1", TRUE)
    \/ LoadFinish("t1", TRUE)

SpecServed == Init /\ [][NextServed]_vars

\* uid is the uid of a node, and the node exists
names_live_node(st, uid) == uid[1] = "n" /\ is_node(st, uid)

\* C37: get_node(uid) returns a node exactly when uid names a live node and
\* raises otherwise; is_node(uid) says that the numeric id is below the
\* capacity and its existence entry is nonzero; and whatever get_node would
\* serve from the proxy cache, the native module instances or the comment
\* instances under a node uid is a live node.
C37_GetNodeServesLiveNodes ==
    [][ /\ last'.op = "get_node" => (last'.ok <=> names_live_node(NetState, last'.uid))
        /\ \A uid \in NodeUids :
               /\ is_node(NetState', uid)
                      <=> (/\ node_from_id(uid) < section'.NoN
                           /\ section'.allocated_nodes[node_from_id(uid)] # 0)
               /\ (\A t \in Threads : pc'[t] \notin {"load_read", "load_reload"}) =>
                      (uid \in proxycache' \cup DOMAIN section'.native_module_instances
                               \cup comment_instances(section')
                           => is_node(NetState', uid)) ]_vars

----------------------------------------------------------------------------
(* The modulator table. *)

\* values are kept within -MaxModulator .. MaxModulator
MaxModulator == 2

ModulatorNames == {"por_ret_decay", "emo_activation"}

ModulatorValues == {0, MaxModulator}

ModulatorDiffs == {-1, 1}

GetModulator(modulator) ==
    /\ last' = [op |-> "get_modulator", ok |-> TRUE, modulator |-> modulator,
                value |-> get_modulator(modulators, modulator)]
    /\ UNCHANGED <<facadevars, envvars, stepvars>>

ChangeModulator(modulator, diff) ==
    /\ \E mods \in {change_modulator(modulators, modulator, diff)} :
        /\ mods[modulator] \in -MaxModulator..MaxModulator
        /\ modulators' = mods
    /\ last' = [op |-> "change_modulator", ok |-> TRUE, modulator |-> modulator, diff |-> diff]
    /\ UNCHANGED <<facadevars, envvars, stepoperators, step, netlock, pc, opidx, oplog>>

ConstructModulatorsDict ==
    /\ last' = [op |-> "construct_modulators_dict", ok |-> TRUE,
                dict |-> construct_modulators_dict(modulators)]
    /\ UNCHANGED <<facadevars, envvars, stepvars>>

\* the caller writes into the dict construct_modulators_dict gave it; a dict
\* that is shared with the nodenet is the table itself
MutateDict(modulator, value) ==
    /\ last.op = "construct_modulators_dict"
    /\ last' = [op |-> "mutate_dict", ok |-> TRUE,
                dict |-> [last.dict EXCEPT !.value = MapPut(@, modulator, value)]]
    /\ modulators' = IF last.dict.shared THEN last'.dict.value ELSE modulators
    /\ UNCHANGED <<facadevars, envvars, stepoperators, step, netlock, pc, opidx, oplog>>

\* modulators are set, changed and read, the table is copied and the copy
\* written, the nodenet is saved and loads its files
NextModulators ==
    \/ Idle /\ \E modulator \in ModulatorNames, value \in ModulatorValues :
                   SetModulator(modulator, value)
    \/ Idle /\ \E modulator \in ModulatorNames, diff \in ModulatorDiffs :
                   ChangeModulator(modulator, diff)
    \/ Idle /\ \E modulator \in ModulatorNames : GetModulator(modulator)
    \/ Idle /\ ConstructModulatorsDict
    \/ Idle /\ \E modulator \in ModulatorNames, value \in ModulatorValues :
                   MutateDict(modulator, value)
    \/ \E what \in {"save_enter", "load_enter"} : Call("t1", what)
    \/ SaveMetadata("t1")
    \/ SaveSection("t1")
    \/ LoadAcquire("t1")
    \/ LoadInitialize("t1", TRUE)
    \/ LoadFinish("t1", TRUE)

SpecModulators == Init /\ [][NextModulators]_vars

\* a call of the facade that is no part of a load or save
facade_call == pc' = pc /\ last' # last

\* C38: set_modulator(n, v) makes get_modulator(n) return v; change_modulator(n, d)
\* makes it return x + d when n had the stored value x and 0 + d when it had
\* none; get_modulator returns the stored value, and 1 for a name without one;
\* por_ret_decay is 0 on a fresh nodenet; a load puts the saved modulators over
\* the ones the nodenet has and keeps the names the file does not have; writing
\* into the dict construct_modulators_dict returned leaves the table alone.
C38_ModulatorTable ==
    [][ /\ facade_call /\ last'.op = "set_modulator" =>
               /\ get_modulator(modulators', last'.modulator) = last'.value
               /\ \A n \in DOMAIN modulators \ {last'.modulator} :
                      n \in DOMAIN modulators' /\ modulators'[n] = modulators[n]
        /\ (modulators' # modulators /\ pc' = pc /\ last'.op = "change_modulator") =>
               get_modulator(modulators', last'.modulator) =
                   (IF last'.modulator \in DOMAIN modulators
                    THEN modulators[last'.modulator] ELSE 0) + last'.diff
        /\ facade_call /\ last'.op = "get_modulator" =>
               /\ modulators' = modulators
               /\ last'.value = (IF last'.modulator \in DOMAIN modulators
                                 THEN modulators[last'.modulator] ELSE 1)
        /\ last.op = "init" => modulators = [por_ret_decay |-> 0]
        /\ (pc["t1"] = "load_read" /\ pc'["t1"] # "load_read" /\ disk.metadata # None) =>
               /\ DOMAIN modulators' = DOMAIN modulators \cup DOMAIN disk.metadata.json.modulators
               /\ \A n \in DOMAIN modulators' :
                      modulators'[n] = IF n \in DOMAIN disk.metadata.json.modulators
                                       THEN disk.metadata.json.modulators[n]
                                       ELSE modulators[n]
        /\ facade_call /\ last'.op = "construct_modulators_dict" =>
               last'.dict.value = modulators /\ modulators' = modulators
        /\ facade_call /\ last'.op = "mutate_dict" =>
               modulators' = modulators ]_vars

\* a load has put a saved value over a changed one and kept a modulator the
\* file does not have, which was made by change_modulator
C38_Witness ==
    /\ last.op = "load" /\ last.ok
    /\ disk.metadata # None
    /\ DOMAIN disk.metadata.json.modulators = {"por_ret_decay"}
    /\ disk.metadata.json.modulators.por_ret_decay = MaxModulator
    /\ modulators = [por_ret_decay |-> MaxModulator, emo_activation |-> -1]

----------------------------------------------------------------------------
(* The update of a world adapter. *)

\* WorldAdapter.add_to_datatarget, lines 66-69
add_to_datatarget(a, key, value) ==
    IF key \in DOMAIN a.datatargets
    THEN [a EXCEPT !.datatargets[key] = @ + value]
    ELSE a

\* an update that leaves the datatargets as they are
reset_datatargets_skipped(a) == a

\* WorldAdapter.reset_datatargets, lines 93-96
reset_datatargets(a) == [a EXCEPT !.datatargets = [datatarget \in DOMAIN @ |-> 0]]

\* WorldAdapter.update, lines 88-91
adapter_update(a, rnd) == reset_datatargets(Default_update_data_sources_and_targets(a, rnd))

DatatargetKeys == {"echo", "thrust"}

DatatargetValues == {-1, 1, MaxValue}

AddToDatatarget(nodenet_uid, key, value) ==
    /\ nodenet_uid \in DOMAIN world.agents
    /\ world.agents[nodenet_uid].class = "Default"
    /\ \E a \in {add_to_datatarget(world.agents[nodenet_uid], key, value)} :
        /\ \A k \in DOMAIN a.datatargets : a.datatargets[k] \in -MaxValue..MaxValue
        /\ AdapterCall(nodenet_uid,
                       Ok([a EXCEPT !.written =
                               IF key \in DOMAIN @ THEN [@ EXCEPT ![key] = @ + value] ELSE @],
                          None),
                       [op |-> "add_to_datatarget", ok |-> TRUE, uid |-> nodenet_uid,
                        key |-> key, value |-> value])

\* the world's iteration calls update on an agent
Update(nodenet_uid) ==
    /\ nodenet_uid \in DOMAIN world.agents
    /\ world.agents[nodenet_uid].class = "Default"
    /\ \E rnd \in RandomValues :
       \E a \in {adapter_update(world.agents[nodenet_uid], rnd)} :
           AdapterCall(nodenet_uid,
                       Ok([a EXCEPT !.written = [k \in DOMAIN @ |-> 0]], None),
                       [op |-> "update", ok |-> TRUE, uid |-> nodenet_uid])

\* Default agents are placed and removed, written to and updated
NextAdapter ==
    \/ \E uid \in AgentUids : uid \notin DOMAIN world.agents /\ PlaceDefault(uid)
    \/ \E uid \in AgentUids, key \in DatatargetKeys, value \in DatatargetValues :
           AddToDatatarget(uid, key, value)
    \/ \E uid \in AgentUids : Update(uid)
    \/ \E uid \in AgentUids : UnregisterNodenet(uid)

SpecAdapter == Init /\ [][NextAdapter]_vars

====
